---- MODULE Spec2Model ----
(***************************************************************************)
(* HB_Scrub: byte-level model of the metadata stripping pipeline.          *)
(*                                                                         *)
(* A file is a sequence of bytes (0..255).  Offsets are 0-based as in the  *)
(* TypeScript source: byte `data[i]` of the source is `At(data, i)` here.  *)
(* Every parser, filter and serializer is an operator computed the way the *)
(* source computes it.  The state machine feeds inputs drawn from bounded  *)
(* families of files to processRemoval and then feeds the output back in;  *)
(* it also inspects the input and verifies the output.  The Node layer     *)
(* (processFile, the batch runner, the scrub stream and the directory      *)
(* watcher) works on a disk of named files over the same pipeline.         *)
(*                                                                         *)
(* CRC words are kept as 4-byte sequences, most significant byte first.    *)
(***************************************************************************)
EXTENDS Integers, Sequences, FiniteSets, TLC

VARIABLES input, options, pc, result, result2, report,
          disk, nodeOptions, queue, workers, scrub, timers

\* the caller of the core API: its file, its policy, what it got back
coreVars == <<input, options, pc, result, result2, report>>

\* the Node layer: the files on disk, the options of the Node entry points,
\* the batch queue and its workers, the scrub stream, the watcher's timers
nodeVars == <<disk, nodeOptions, queue, workers, scrub, timers>>

vars == <<coreVars, nodeVars>>

\* ------------------------------------------------------------------------
\* Size bounds of the input families
\* ------------------------------------------------------------------------

\* Number of optional blocks (chunks / segments) placed in one input file.
MaxBlocks == 2

\* options.concurrency ?? 4
DefaultConcurrency == 4

\* ------------------------------------------------------------------------
\* binary/buffer.ts and binary/dataview.ts
\* ------------------------------------------------------------------------

Min(a, b) == IF a < b THEN a ELSE b

Max(a, b) == IF a > b THEN a ELSE b

\* the least / the greatest element of a set of integers, `none` when empty
leastOr(S, none) == IF S = {} THEN none ELSE CHOOSE x \in S : \A y \in S : x <= y

greatestOr(S, none) == IF S = {} THEN none ELSE CHOOSE x \in S : \A y \in S : y <= x

\* data[i] for a 0-based index within the buffer
At(data, i) == data[i + 1]

\* data.slice(from, to): clamps to the buffer, empty when from >= to
slice(data, from, to) == SubSeq(data, from + 1, Min(to, Len(data)))

\* Stand-in for every uint32 value >= 2^29.  Such a value exceeds every
\* buffer length of the model, so each comparison the source makes between
\* it and a length or an offset has the same outcome, and sums with it stay
\* inside the integer range of the model checker.
BigU32 == 536870912

readUint16BE(data, offset) == At(data, offset) * 256 + At(data, offset + 1)

readUint16LE(data, offset) == At(data, offset + 1) * 256 + At(data, offset)

readUint32BE(data, offset) ==
    IF At(data, offset) >= 32 THEN BigU32
    ELSE At(data, offset) * 16777216 + At(data, offset + 1) * 65536
         + At(data, offset + 2) * 256 + At(data, offset + 3)

readUint32LE(data, offset) ==
    IF At(data, offset + 3) >= 32 THEN BigU32
    ELSE At(data, offset + 3) * 16777216 + At(data, offset + 2) * 65536
         + At(data, offset + 1) * 256 + At(data, offset)

readUint16(data, offset, littleEndian) ==
    IF littleEndian THEN readUint16LE(data, offset) ELSE readUint16BE(data, offset)

readUint32(data, offset, littleEndian) ==
    IF littleEndian THEN readUint32LE(data, offset) ELSE readUint32BE(data, offset)

\* The bytes writeUint16BE / writeUint32BE store for a value
writeUint16BE(v) == <<(v \div 256) % 256, v % 256>>

writeUint16LE(v) == <<v % 256, (v \div 256) % 256>>

writeUint32BE(v) ==
    <<(v \div 16777216) % 256, (v \div 65536) % 256, (v \div 256) % 256, v % 256>>

writeUint32LE(v) ==
    <<v % 256, (v \div 256) % 256, (v \div 65536) % 256, (v \div 16777216) % 256>>

writeUint16(v, littleEndian) ==
    IF littleEndian THEN writeUint16LE(v) ELSE writeUint16BE(v)

writeUint32(v, littleEndian) ==
    IF littleEndian THEN writeUint32LE(v) ELSE writeUint32BE(v)

\* buffer.matchesAt: pattern occurs in data at the 0-based offset
matchesAt(data, offset, pattern) ==
    /\ offset + Len(pattern) <= Len(data)
    /\ \A i \in 1..Len(pattern) : data[offset + i] = pattern[i]

startsWith(data, pattern) ==
    /\ Len(data) >= Len(pattern)
    /\ \A i \in 1..Len(pattern) : data[i] = pattern[i]

\* buffer.indexOf: first 0-based position >= from where pattern occurs, -1 if none
indexOf(data, pattern, from) ==
    leastOr({i \in from..(Len(data) - Len(pattern)) : matchesAt(data, i, pattern)}, -1)

\* Overwrite buf[offset .. offset+Len(bytes)-1]; writes past the end are dropped
\* (typed-array stores out of range are no-ops)
set(buf, offset, bytes) ==
    [i \in 1..Len(buf) |->
        IF i - 1 >= offset /\ i - 1 < offset + Len(bytes)
        THEN bytes[i - offset] ELSE buf[i]]

\* buf.fill(value, from, to), and the loops `for (i = from; i < to; i++)
\* buf[i] = value`: stores past the end are dropped
fill(buf, value, from, to) ==
    [i \in 1..Len(buf) |-> IF i - 1 >= from /\ i - 1 < to THEN value ELSE buf[i]]

RECURSIVE concat(_)
concat(parts) ==
    IF parts = <<>> THEN <<>> ELSE Head(parts) \o concat(Tail(parts))

\* ------------------------------------------------------------------------
\* binary/crc32.ts
\* ------------------------------------------------------------------------

RECURSIVE XorNat(_, _)
\* bitwise exclusive or of two naturals below 2^16
XorNat(a, b) ==
    IF a = 0 THEN b
    ELSE IF b = 0 THEN a
    ELSE (((a % 2) + (b % 2)) % 2) + 2 * XorNat(a \div 2, b \div 2)

\* exclusive or of nibbles, tabulated once
XorNibble == [a \in 0..15 |-> [b \in 0..15 |-> XorNat(a, b)]]

XorByte(a, b) ==
    16 * XorNibble[a \div 16][b \div 16] + XorNibble[a % 16][b % 16]

\* A 32-bit word is <<b3, b2, b1, b0>>, most significant byte first.
XorWord(x, y) ==
    <<XorByte(x[1], y[1]), XorByte(x[2], y[2]), XorByte(x[3], y[3]), XorByte(x[4], y[4])>>

\* x >>> 1
ShiftRight1(x) ==
    <<x[1] \div 2,
      (x[1] % 2) * 128 + x[2] \div 2,
      (x[2] % 2) * 128 + x[3] \div 2,
      (x[3] % 2) * 128 + x[4] \div 2>>

\* x >>> 8
ShiftRight8(x) == <<0, x[1], x[2], x[3]>>

\* 0xEDB88320
CrcPoly == <<237, 184, 131, 32>>

RECURSIVE CrcRounds(_, _)
\* k rounds of: c = (c & 1) ? 0xEDB88320 ^ (c >>> 1) : c >>> 1
CrcRounds(c, k) ==
    IF k = 0 THEN c
    ELSE CrcRounds(IF c[4] % 2 = 1 THEN XorWord(CrcPoly, ShiftRight1(c))
                   ELSE ShiftRight1(c), k - 1)

CRC32_TABLE == [n \in 0..255 |-> CrcRounds(<<0, 0, 0, n>>, 8)]

RECURSIVE crcUpdate(_, _, _)
\* crc = CRC32_TABLE[(crc ^ data[i]) & 0xff] ^ (crc >>> 8), for i = from..Len(data)
crcUpdate(crc, data, from) ==
    IF from > Len(data) THEN crc
    ELSE LET next == XorWord(CRC32_TABLE[XorByte(crc[4], data[from])], ShiftRight8(crc))
         IN  IF Len(next) = 4 THEN crcUpdate(next, data, from + 1) ELSE next

AllOnes == <<255, 255, 255, 255>>

crc32(data) == XorWord(crcUpdate(AllOnes, data, 1), AllOnes)

crc32Png(typeBytes, data) ==
    XorWord(crcUpdate(crcUpdate(AllOnes, typeBytes, 1), data, 1), AllOnes)

\* ------------------------------------------------------------------------
\* signatures.ts
\* ------------------------------------------------------------------------

SIG_JPEG == <<255, 216, 255>>

JPEG_SOI == <<255, 216>>

SIG_PNG == <<137, 80, 78, 71, 13, 10, 26, 10>>

SIG_GIF87a == <<71, 73, 70, 56, 55, 97>>

SIG_GIF89a == <<71, 73, 70, 56, 57, 97>>

SIG_RIFF == <<82, 73, 70, 70>>

SIG_WEBP == <<87, 69, 66, 80>>

SIG_TIFF_LE == <<73, 73, 42, 0>>

SIG_TIFF_BE == <<77, 77, 0, 42>>

SIG_FTYP == <<102, 116, 121, 112>>

SIG_PDF == <<37, 80, 68, 70, 45>>

\* ------------------------------------------------------------------------
\* operations/remove.ts: field lists merged into the legacy preserve flags
\* ------------------------------------------------------------------------

FIELD_TO_PRESERVE ==
    [f \in {"ICC Profile", "Copyright", "Orientation", "Title", "Description"} |->
        CASE f = "ICC Profile" -> "preserveColorProfile"
          [] f = "Copyright"   -> "preserveCopyright"
          [] f = "Orientation" -> "preserveOrientation"
          [] f = "Title"       -> "preserveTitle"
          [] f = "Description" -> "preserveDescription"]

\* The value the merge leaves in one preserve flag: the flag is only ever
\* assigned true, by the denylist loop for a field not listed in `remove`,
\* and by the allowlist loop for a field listed in `keep`.
mergedFlag(o, flag) ==
    \/ o[flag]
    \/ \E f \in DOMAIN FIELD_TO_PRESERVE :
          /\ FIELD_TO_PRESERVE[f] = flag
          /\ \/ (o.remove # {} /\ f \notin o.remove)
             \/ f \in o.keep

applyFieldOptions(o) ==
    [o EXCEPT !.preserveColorProfile = mergedFlag(o, "preserveColorProfile"),
              !.preserveCopyright    = mergedFlag(o, "preserveCopyright"),
              !.preserveOrientation  = mergedFlag(o, "preserveOrientation"),
              !.preserveTitle        = mergedFlag(o, "preserveTitle"),
              !.preserveDescription  = mergedFlag(o, "preserveDescription")]

\* ------------------------------------------------------------------------
\* formats/png.ts
\* ------------------------------------------------------------------------

T_IHDR == <<73, 72, 68, 82>>

T_IDAT == <<73, 68, 65, 84>>

T_IEND == <<73, 69, 78, 68>>

T_PLTE == <<80, 76, 84, 69>>

T_tEXt == <<116, 69, 88, 116>>

T_iTXt == <<105, 84, 88, 116>>

T_zTXt == <<122, 84, 88, 116>>

T_eXIf == <<101, 88, 73, 102>>

T_tIME == <<116, 73, 77, 69>>

T_iCCP == <<105, 67, 67, 80>>

T_pHYs == <<112, 72, 89, 115>>

T_gAMA == <<103, 65, 77, 65>>

\* a private ancillary chunk type, "prVt"
T_prVt == <<112, 114, 86, 116>>

METADATA_CHUNKS == {T_tEXt, T_iTXt, T_zTXt, T_eXIf, T_tIME}

\* IHDR IDAT IEND PLTE tRNS gAMA cHRM sRGB sBIT bKGD hIST pHYs sPLT acTL fcTL fdAT
REQUIRED_CHUNKS ==
    {T_IHDR, T_IDAT, T_IEND, T_PLTE, <<116, 82, 78, 83>>, T_gAMA,
     <<99, 72, 82, 77>>, <<115, 82, 71, 66>>, <<115, 66, 73, 84>>,
     <<98, 75, 71, 68>>, <<104, 73, 83, 84>>, T_pHYs, <<115, 80, 76, 84>>,
     <<97, 99, 84, 76>>, <<102, 99, 84, 76>>, <<102, 100, 65, 84>>}

ICC_CHUNK == T_iCCP

\* a thrown CorruptedFileError
PngCorrupted == [ok |-> FALSE, chunks |-> <<>>]

RECURSIVE pngParseLoop(_, _, _)
pngParseLoop(data, offset, chunks) ==
    IF offset >= Len(data) THEN [ok |-> TRUE, chunks |-> chunks]
    ELSE IF offset + 8 > Len(data) THEN PngCorrupted
    ELSE
      LET length == readUint32BE(data, offset)
          type   == slice(data, offset + 4, offset + 8)
          start  == offset + 8
      IN  IF start + length + 4 > Len(data)
          THEN IF \E i \in 1..Len(chunks) : chunks[i].type \in {T_IHDR, T_IDAT}
               THEN [ok |-> TRUE, chunks |-> chunks]
               ELSE PngCorrupted
          ELSE
            LET chunk == [type |-> type,
                          data |-> slice(data, start, start + length),
                          crc  |-> slice(data, start + length, start + length + 4)]
            IN  IF type = T_IEND
                THEN [ok |-> TRUE, chunks |-> Append(chunks, chunk)]
                ELSE pngParseLoop(data, start + length + 4, Append(chunks, chunk))

pngParseChunks(data) ==
    IF Len(data) < 8 \/ ~startsWith(data, SIG_PNG) THEN PngCorrupted
    ELSE pngParseLoop(data, 8, <<>>)

\* A serializer that copies the CRC word read from the input instead of
\* recomputing it.  Not the program's: C10 must fail against it.
serializeChunkStoredCrc(chunk) ==
    writeUint32BE(Len(chunk.data)) \o chunk.type \o chunk.data \o chunk.crc

serializeChunk(chunk) ==
    writeUint32BE(Len(chunk.data)) \o chunk.type \o chunk.data
        \o crc32Png(chunk.type, chunk.data)

RECURSIVE serializeAll(_)
serializeAll(chunks) ==
    IF chunks = <<>> THEN <<>>
    ELSE serializeChunk(Head(chunks)) \o serializeAll(Tail(chunks))

buildPng(chunks) == SIG_PNG \o serializeAll(chunks)

\* null
NoOrientation == -1

RECURSIVE rawExifOrientationLoop(_, _, _, _, _)
rawExifOrientationLoop(exifData, ifdOffset, numEntries, i, littleEndian) ==
    IF i >= numEntries THEN NoOrientation
    ELSE
      LET entryOffset == ifdOffset + 2 + i * 12
      IN  IF entryOffset + 12 > Len(exifData) THEN NoOrientation
          ELSE IF readUint16(exifData, entryOffset, littleEndian) = 274
          THEN readUint16(exifData, entryOffset + 8, littleEndian)
          ELSE rawExifOrientationLoop(exifData, ifdOffset, numEntries, i + 1, littleEndian)

readOrientationFromRawExif(exifData) ==
    IF Len(exifData) < 8 THEN NoOrientation
    ELSE
      LET littleEndian == (slice(exifData, 0, 2) = <<73, 73>>)
          ifdOffset    == readUint32(exifData, 4, littleEndian)
      IN  IF ifdOffset + 2 > Len(exifData) THEN NoOrientation
          ELSE rawExifOrientationLoop(exifData, ifdOffset,
                                      readUint16(exifData, ifdOffset, littleEndian),
                                      0, littleEndian)

buildOrientationExifChunk(orientation) ==
    [type |-> T_eXIf,
     data |-> <<77, 77, 0, 42, 0, 0, 0, 8, 0, 1, 1, 18, 0, 3, 0, 0, 0, 1,
                0, orientation % 256, 0, 0, 0, 0, 0, 0>>,
     crc  |-> <<0, 0, 0, 0>>]

isMetadataChunk(chunk) == chunk.type \in METADATA_CHUNKS

isIccChunk(chunk) == chunk.type = ICC_CHUNK

pngKeepChunk(chunk, opts) ==
    IF chunk.type \in REQUIRED_CHUNKS THEN TRUE
    ELSE IF isIccChunk(chunk) THEN opts.preserveColorProfile
    ELSE IF isMetadataChunk(chunk) THEN FALSE
    ELSE TRUE

\* index (1-based) of the first element satisfying a test given as a set of
\* indices; 0 when there is none
FirstIndex(idx) == leastOr(idx, 0)

pngSavedOrientation(chunks, opts) ==
    LET exifIdx == FirstIndex({i \in 1..Len(chunks) : chunks[i].type = T_eXIf})
    IN  IF opts.preserveOrientation /\ exifIdx # 0
        THEN readOrientationFromRawExif(chunks[exifIdx].data)
        ELSE NoOrientation

pngFiltered(chunks, opts) ==
    LET kept == SelectSeq(chunks, LAMBDA c : pngKeepChunk(c, opts))
        saved == pngSavedOrientation(chunks, opts)
        ihdrIdx == FirstIndex({i \in 1..Len(kept) : kept[i].type = T_IHDR})
    IN  IF saved = NoOrientation THEN kept
        ELSE SubSeq(kept, 1, ihdrIdx) \o <<buildOrientationExifChunk(saved)>>
                 \o SubSeq(kept, ihdrIdx + 1, Len(kept))

\* png.remove; <<>> stands for a thrown error and is never a PNG
pngRemove(data, opts) ==
    LET parsed == pngParseChunks(data)
    IN  IF ~parsed.ok THEN [ok |-> FALSE, data |-> <<>>]
        ELSE [ok |-> TRUE, data |-> buildPng(pngFiltered(parsed.chunks, opts))]

getMetadataDescription(chunk) ==
    CASE chunk.type = T_tEXt -> "Text metadata"
      [] chunk.type = T_iTXt -> "International text"
      [] chunk.type = T_zTXt -> "Compressed text"
      [] chunk.type = T_eXIf -> "EXIF"
      [] chunk.type = T_tIME -> "Timestamp"
      [] chunk.type = T_iCCP -> "ICC Profile"
      [] OTHER -> "other"

\* png.getMetadataTypes, as the set of names listed
pngGetMetadataTypes(data) ==
    LET names(chunks) ==
            {getMetadataDescription(chunks[i]) :
                i \in {j \in 1..Len(chunks) :
                          isMetadataChunk(chunks[j]) \/ isIccChunk(chunks[j])}}
    IN  names(pngParseChunks(data).chunks)

\* ------------------------------------------------------------------------
\* formats/jpeg.ts
\* ------------------------------------------------------------------------

\* "Exif\0\0"
SIG_EXIF == <<69, 120, 105, 102, 0, 0>>

\* "http://ns.adobe.com/xap/1.0/\0"
SIG_XMP ==
    <<104, 116, 116, 112, 58, 47, 47, 110, 115, 46, 97, 100, 111, 98, 101, 46,
      99, 111, 109, 47, 120, 97, 112, 47, 49, 46, 48, 47, 0>>

\* "http://ns.adobe.com/xmp/extension/\0"
SIG_XMP_EXT ==
    <<104, 116, 116, 112, 58, 47, 47, 110, 115, 46, 97, 100, 111, 98, 101, 46,
      99, 111, 109, 47, 120, 109, 112, 47, 101, 120, 116, 101, 110, 115, 105,
      111, 110, 47, 0>>

\* "ICC_PROFILE\0"
SIG_ICC == <<73, 67, 67, 95, 80, 82, 79, 70, 73, 76, 69, 0>>

\* "Photoshop"
SIG_PHOTOSHOP == <<80, 104, 111, 116, 111, 115, 104, 111, 112>>

\* "Adobe"
SIG_ADOBE == <<65, 100, 111, 98, 101>>

\* MARKERS: 0xFFD9, 0xFFDA, 0xFFE0, 0xFFE1, 0xFFE2, 0xFFED, 0xFFEE, 0xFFFE
MARKERS ==
    [EOI |-> 65497, SOS |-> 65498, APP0 |-> 65504, APP1 |-> 65505,
     APP2 |-> 65506, APP13 |-> 65517, APP14 |-> 65518, COM |-> 65534]

\* a thrown CorruptedFileError
JpegCorrupted == [ok |-> FALSE, segments |-> <<>>]

RECURSIVE skipPadding(_, _)
\* while (offset < data.length && data[offset] === 0xff) offset++
skipPadding(data, offset) ==
    IF offset < Len(data) /\ At(data, offset) = 255
    THEN skipPadding(data, offset + 1) ELSE offset

\* position of the last FF D9 strictly after `offset`, or data.length
findSosEnd(data, offset) ==
    LET hits == {i \in (offset + 1)..(Len(data) - 2) :
                    At(data, i) = 255 /\ At(data, i + 1) = 217}
    IN  IF hits = {} THEN Len(data) ELSE CHOOSE i \in hits : \A j \in hits : j <= i

RECURSIVE jpegParseLoop(_, _, _)
jpegParseLoop(data, offset0, segments) ==
    IF offset0 >= Len(data) - 1 THEN [ok |-> TRUE, segments |-> segments]
    ELSE IF At(data, offset0) # 255 THEN JpegCorrupted
    ELSE
      LET mpos == skipPadding(data, offset0)
      IN  IF mpos >= Len(data) THEN [ok |-> TRUE, segments |-> segments]
          ELSE
            LET markerType == At(data, mpos)
                offset     == mpos + 1
            IN  IF markerType = 217
                THEN [ok |-> TRUE,
                      segments |-> Append(segments,
                          [marker |-> 65497, data |-> <<>>, offset |-> offset - 2])]
                ELSE IF markerType = 218
                THEN LET sosStart == offset - 2
                         sosEnd   == findSosEnd(data, offset)
                         sos      == [marker |-> 65498,
                                      data |-> slice(data, sosStart, sosEnd),
                                      offset |-> sosStart]
                     IN  [ok |-> TRUE,
                          segments |->
                            IF sosEnd < Len(data)
                            THEN segments \o <<sos, [marker |-> 65497, data |-> <<>>,
                                                     offset |-> sosEnd]>>
                            ELSE Append(segments, sos)]
                ELSE IF markerType >= 208 /\ markerType <= 215
                THEN jpegParseLoop(data, offset, Append(segments,
                          [marker |-> 65280 + markerType, data |-> <<>>,
                           offset |-> offset - 2]))
                ELSE IF offset + 2 > Len(data) THEN JpegCorrupted
                ELSE
                  LET length     == readUint16BE(data, offset)
                      segmentEnd == offset + length
                  IN  IF length < 2 \/ segmentEnd > Len(data) THEN JpegCorrupted
                      ELSE jpegParseLoop(data, segmentEnd, Append(segments,
                              [marker |-> 65280 + markerType,
                               data |-> slice(data, offset - 2, segmentEnd),
                               offset |-> offset - 2]))

parseSegments(data) ==
    IF ~startsWith(data, SIG_JPEG) THEN JpegCorrupted
    ELSE jpegParseLoop(data, 2, <<>>)

isExifSegment(segment) ==
    /\ segment.marker = MARKERS.APP1
    /\ Len(segment.data) >= 10
    /\ matchesAt(segment.data, 4, SIG_EXIF)

isXmpSegment(segment) ==
    /\ segment.marker = MARKERS.APP1
    /\ Len(segment.data) >= 35
    /\ (matchesAt(segment.data, 4, SIG_XMP) \/ matchesAt(segment.data, 4, SIG_XMP_EXT))

isIccSegment(segment) ==
    /\ segment.marker = MARKERS.APP2
    /\ Len(segment.data) >= 18
    /\ matchesAt(segment.data, 4, SIG_ICC)

isIptcSegment(segment) ==
    /\ segment.marker = MARKERS.APP13
    /\ Len(segment.data) >= 20
    /\ matchesAt(segment.data, 4, SIG_PHOTOSHOP)

isAdobeSegment(segment) ==
    /\ segment.marker = MARKERS.APP14
    /\ Len(segment.data) >= 9
    /\ matchesAt(segment.data, 4, SIG_ADOBE)

isCommentSegment(segment) == segment.marker = MARKERS.COM

getOrientationFromExif(segment) ==
    IF ~isExifSegment(segment) \/ Len(segment.data) < 18 THEN NoOrientation
    ELSE
      LET littleEndian == (slice(segment.data, 10, 12) = <<73, 73>>)
          ifdStart     == 10 + readUint32(segment.data, 14, littleEndian)
      IN  IF ifdStart + 2 > Len(segment.data) THEN NoOrientation
          ELSE rawExifOrientationLoop(segment.data, ifdStart,
                                      readUint16(segment.data, ifdStart, littleEndian),
                                      0, littleEndian)

createOrientationExif(orientation) ==
    LET tiffHeader == <<77, 77, 0, 42, 0, 0, 0, 8>>
        ifd0    == <<0, 1, 1, 18, 0, 3, 0, 0, 0, 1,
                     (orientation \div 256) % 256, orientation % 256, 0, 0, 0, 0, 0, 0>>
        content == SIG_EXIF \o tiffHeader \o ifd0
    IN  <<255, 225>> \o writeUint16BE(Len(content) + 2) \o content

shouldKeepSegment(segment, opts) ==
    IF segment.marker = MARKERS.SOS \/ segment.marker = MARKERS.EOI THEN TRUE
    ELSE IF segment.marker = MARKERS.APP0 THEN TRUE
    ELSE IF isExifSegment(segment) THEN FALSE
    ELSE IF isXmpSegment(segment) THEN FALSE
    ELSE IF isIccSegment(segment) THEN opts.preserveColorProfile
    ELSE IF isIptcSegment(segment) THEN FALSE
    ELSE IF isAdobeSegment(segment) THEN FALSE
    ELSE IF isCommentSegment(segment) THEN FALSE
    ELSE IF segment.marker >= MARKERS.APP0 /\ segment.marker <= 65519 THEN FALSE
    ELSE TRUE

\* the orientation of the first EXIF segment that has one, when it is to be kept
jpegOrientation(segments, opts) ==
    LET idx == FirstIndex({i \in 1..Len(segments) :
                   getOrientationFromExif(segments[i]) # NoOrientation})
    IN  IF opts.preserveOrientation /\ idx # 0
        THEN getOrientationFromExif(segments[idx]) ELSE NoOrientation

RECURSIVE jpegKeptSegments(_, _, _)
jpegKeptSegments(segments, opts, orientation) ==
    IF segments = <<>> THEN <<>>
    ELSE
      LET segment == Head(segments)
          rest    == jpegKeptSegments(Tail(segments), opts, orientation)
      IN  IF ~shouldKeepSegment(segment, opts) THEN rest
          ELSE (IF segment.marker = MARKERS.SOS /\ opts.preserveOrientation
                   /\ orientation # NoOrientation
                THEN createOrientationExif(orientation) ELSE <<>>)
               \o (IF Len(segment.data) > 0 THEN segment.data
                   ELSE IF segment.marker = MARKERS.EOI THEN <<255, 217>> ELSE <<>>)
               \o rest

jpegRemove(data, opts) ==
    LET parsed == parseSegments(data)
    IN  IF ~parsed.ok THEN [ok |-> FALSE, data |-> <<>>]
        ELSE [ok |-> TRUE,
              data |-> JPEG_SOI \o jpegKeptSegments(parsed.segments, opts,
                                       jpegOrientation(parsed.segments, opts))]

jpegSegmentType(segment) ==
    IF isExifSegment(segment) THEN "EXIF"
    ELSE IF isXmpSegment(segment) THEN "XMP"
    ELSE IF isIccSegment(segment) THEN "ICC Profile"
    ELSE IF isIptcSegment(segment) THEN "IPTC"
    ELSE IF isAdobeSegment(segment) THEN "Adobe"
    ELSE IF isCommentSegment(segment) THEN "Comment"
    ELSE "none"

jpegGetMetadataTypes(data) ==
    LET names(segments) == {jpegSegmentType(segments[i]) : i \in 1..Len(segments)}
    IN  names(parseSegments(data).segments) \ {"none"}

\* ------------------------------------------------------------------------
\* exif/reader.ts (the GPS path of readExifBlock)
\*
\* A decimal coordinate is carried as [neg, micro]: `neg` is the outcome of
\* the test `x < 0` and `micro` is floor(|x| * 1000000), computed exactly on
\* the rationals.  The inputs of the model keep |x| * 1000000 away from the
\* rounding boundaries of IEEE-754 doubles, or exactly representable, so the
\* exact value is the value the source computes.
\* ------------------------------------------------------------------------

TYPE_SIZES ==
    [t \in 1..12 |->
        CASE t \in {1, 2, 6, 7} -> 1
          [] t \in {3, 8}       -> 2
          [] t \in {4, 9, 11}   -> 4
          [] OTHER              -> 8]

\* (TYPE_SIZES[type] ?? 1) * count, saturating at the stand-in for large words
entrySize(type, count) ==
    LET unit == IF type \in DOMAIN TYPE_SIZES THEN TYPE_SIZES[type] ELSE 1
    IN  IF count >= BigU32 \div unit THEN BigU32 ELSE unit * count

\* reader.parseIfd: entries that lie wholly inside the buffer
readerParseIfd(data, offset, le) ==
    LET entryAt(pos) ==
            [tag           |-> readUint16(data, pos, le),
             type          |-> readUint16(data, pos + 2, le),
             count         |-> readUint32(data, pos + 4, le),
             valueOffset   |-> readUint32(data, pos + 8, le),
             rawValueBytes |-> slice(data, pos + 8, pos + 12)]
        listed(numEntries) ==
            IF numEntries > 512 THEN <<>>
            ELSE [i \in 1..Min(numEntries, (Len(data) - offset - 2) \div 12) |->
                    entryAt(offset + 2 + (i - 1) * 12)]
    IN  IF offset + 2 > Len(data) THEN <<>>
        ELSE listed(readUint16(data, offset, le))

\* types for which readEntryValue returns a value
ValuedTypes == {2, 3, 4, 5, 10}

\* the entry a tag map built by successive Map.set calls holds for `tag`
\* (the last valued entry with that tag), as an index; 0 when absent
tagIndex(entries, tag) ==
    LET idx == {i \in 1..Len(entries) :
                   entries[i].tag = tag /\ entries[i].type \in ValuedTypes}
    IN  IF idx = {} THEN 0 ELSE CHOOSE i \in idx : \A j \in idx : j <= i

\* whitespace removed by String.prototype.trim among single-byte characters
TrimSet == {9, 10, 11, 12, 13, 32, 160}

RECURSIVE trimLeft(_)
trimLeft(s) == IF s # <<>> /\ Head(s) \in TrimSet THEN trimLeft(Tail(s)) ELSE s

RECURSIVE trimRight(_)
trimRight(s) ==
    IF s # <<>> /\ s[Len(s)] \in TrimSet THEN trimRight(SubSeq(s, 1, Len(s) - 1)) ELSE s

trim(s) == trimRight(trimLeft(s))

RECURSIVE asciiUntilNul(_, _, _)
asciiUntilNul(data, offset, count) ==
    IF count <= 0 \/ offset >= Len(data) \/ At(data, offset) = 0 THEN <<>>
    ELSE <<At(data, offset)>> \o asciiUntilNul(data, offset + 1, count - 1)

readAscii(data, offset, count) == trim(asciiUntilNul(data, offset, count))

readRational(data, offset, le) ==
    IF offset + 8 > Len(data) THEN <<0, 1>>
    ELSE <<readUint32(data, offset, le), readUint32(data, offset + 4, le)>>

\* the string value of an ASCII entry
entryAscii(data, entry) ==
    IF entrySize(entry.type, entry.count) <= 4
    THEN readAscii(entry.rawValueBytes, 0, entry.count)
    ELSE readAscii(data, entry.valueOffset, entry.count)

\* rationals[i] ?? [0, 1] for the RATIONAL array of an entry, i = 0, 1, 2
entryRational(data, entry, i, le) ==
    IF i < entry.count THEN readRational(data, entry.valueOffset + i * 8, le)
    ELSE <<0, 1>>

RECURSIVE Gcd(_, _)
Gcd(a, b) == IF b = 0 THEN a ELSE Gcd(b, a % b)

RECURSIVE scaledDigits(_, _, _, _)
\* k further decimal digits of the quotient whose integer part is q, remainder r
scaledDigits(q, r, b, k) ==
    IF k = 0 THEN [q |-> q, r |-> r]
    ELSE scaledDigits(q * 10 + (r * 10) \div b, (r * 10) % b, b, k - 1)

\* n * 1000000 / b as integer quotient and reduced fractional part r / b
scaledDiv(n, b) ==
    LET reduced(d, g) == [q |-> d.q, r |-> d.r \div g, b |-> b \div g]
        digits(d) == reduced(d, Gcd(d.r, b))
    IN  IF b = 0 THEN [q |-> 0, r |-> 0, b |-> 1]
        ELSE digits(scaledDigits(n \div b, n % b, b, 6))

\* dmsToDecimal, times 1000000, rounded down: deg + min / 60 + sec / 3600
dmsToMicro(deg, min, sec) ==
    LET sum(t1, t2, t3) ==
            t1.q + t2.q + t3.q
              + (t1.r * t2.b * t3.b + t2.r * t1.b * t3.b + t3.r * t1.b * t2.b)
                  \div (t1.b * t2.b * t3.b)
    IN  sum(scaledDiv(deg[1], deg[2]), scaledDiv(min[1], min[2] * 60),
            scaledDiv(sec[1], sec[2] * 3600))

\* dmsToDecimal(...) > 0
dmsPositive(deg, min, sec) ==
    \/ (deg[1] > 0 /\ deg[2] > 0)
    \/ (min[1] > 0 /\ min[2] > 0)
    \/ (sec[1] > 0 /\ sec[2] > 0)

NoGps == [present |-> FALSE,
          latitude |-> [neg |-> FALSE, micro |-> 0],
          longitude |-> [neg |-> FALSE, micro |-> 0]]

\* one coordinate of parseGpsIfd: the DMS entry `val` negated when the
\* reference entry reads as `negRef` ("S" or "W", in either case)
gpsCoordinate(data, entries, val, ref, negRef, le) ==
    LET signed(deg, min, sec, refText) ==
            [neg   |-> refText \in {<<negRef>>, <<negRef + 32>>}
                         /\ dmsPositive(deg, min, sec),
             micro |-> dmsToMicro(deg, min, sec)]
    IN  signed(entryRational(data, entries[val], 0, le),
               entryRational(data, entries[val], 1, le),
               entryRational(data, entries[val], 2, le),
               IF ref = 0 THEN <<>> ELSE entryAscii(data, entries[ref]))

\* parseGpsIfd.  A coordinate entry is read when it is a RATIONAL array;
\* a reference entry that is not ASCII makes toUpperCase throw, which
\* readExifBlock swallows, leaving no GPS.
parseGpsIfd(data, gpsIfdOffset, le) ==
    LET located(entries, latRef, lat, lngRef, lng) ==
            LET isArray(i) == entries[i].type = 5 /\ entries[i].count # 1
                isText(i)  == i = 0 \/ entries[i].type = 2
            IN  IF lat = 0 \/ lng = 0 THEN NoGps
                ELSE IF ~isArray(lat) \/ ~isArray(lng) \/ ~isText(latRef)
                          \/ ~isText(lngRef)
                THEN NoGps
                ELSE [present   |-> TRUE,
                      latitude  |-> gpsCoordinate(data, entries, lat, latRef, 83, le),
                      longitude |-> gpsCoordinate(data, entries, lng, lngRef, 87, le)]
        parsed(entries) ==
            located(entries, tagIndex(entries, 1), tagIndex(entries, 2),
                    tagIndex(entries, 3), tagIndex(entries, 4))
    IN  IF gpsIfdOffset = 0 \/ gpsIfdOffset + 2 > Len(data) THEN NoGps
        ELSE parsed(readerParseIfd(data, gpsIfdOffset, le))

\* readExifBlock, restricted to the `gps` member of its output
readExifBlock(exifData) ==
    LET pointed(le, entry) ==
            IF entry.type \notin {3, 4} \/ entry.count # 1 THEN NoGps
            ELSE parseGpsIfd(exifData,
                             IF entry.type = 4
                             THEN readUint32(entry.rawValueBytes, 0, le)
                             ELSE readUint16(entry.rawValueBytes, 0, le),
                             le)
        located(le, entries, ptr) ==
            IF ptr = 0 THEN NoGps ELSE pointed(le, entries[ptr])
        parsed(le, entries) == located(le, entries, tagIndex(entries, 34853))
        ordered(le) ==
            IF readUint16(exifData, 2, le) # 42 THEN NoGps
            ELSE parsed(le, readerParseIfd(exifData, readUint32(exifData, 4, le), le))
    IN  IF Len(exifData) < 8 THEN NoGps
        ELSE ordered(slice(exifData, 0, 2) = <<73, 73>>)

\* ------------------------------------------------------------------------
\* exif/writer.ts
\* ------------------------------------------------------------------------

ifdEntryBE(tag, type, count, valueBytes) ==
    writeUint16BE(tag) \o writeUint16BE(type) \o writeUint32BE(count) \o valueBytes

\* writeCoord: floor(|deg| * 1000000) / 1000000, 0 / 1, 0 / 1
writeCoord(coord) ==
    writeUint32BE(coord.micro) \o writeUint32BE(1000000)
        \o writeUint32BE(0) \o writeUint32BE(1)
        \o writeUint32BE(0) \o writeUint32BE(1)

buildRedactedGpsExif(lat, lng) ==
    <<77, 77, 0, 42>> \o writeUint32BE(8)
        \o writeUint16BE(1) \o ifdEntryBE(34853, 4, 1, writeUint32BE(26))
        \o writeUint32BE(0)
        \o writeUint16BE(4)
        \o ifdEntryBE(1, 2, 2, IF ~lat.neg THEN <<78, 0, 0, 0>> ELSE <<83, 0, 0, 0>>)
        \o ifdEntryBE(2, 5, 3, writeUint32BE(80 + 8))
        \o ifdEntryBE(3, 2, 2, IF ~lng.neg THEN <<69, 0, 0, 0>> ELSE <<87, 0, 0, 0>>)
        \o ifdEntryBE(4, 5, 3, writeUint32BE(80 + 8 + 24))
        \o writeUint32BE(0)
        \o <<0, 0, 0, 0, 0, 0, 0, 0>>
        \o writeCoord(lat) \o writeCoord(lng)

wrapInJpegApp1(tiff) ==
    IF Len(tiff) = 0 THEN <<>>
    ELSE <<255, 225>> \o writeUint16BE(Len(tiff) + 6 + 2) \o SIG_EXIF \o tiff

\* f.value + '\0', padded to an even length
valueBlob(value) ==
    IF (Len(value) + 1) % 2 # 0 THEN value \o <<0, 0>> ELSE value \o <<0>>

RECURSIVE tiffBlockEntries(_, _)
\* the IFD0 entries of buildTiffBlock for fields sorted by tag
tiffBlockEntries(fields, valueOffset) ==
    IF fields = <<>> THEN <<>>
    ELSE LET blob == valueBlob(Head(fields).value)
         IN  IF Len(blob) <= 4
             THEN ifdEntryBE(Head(fields).tag, 2, Len(blob),
                             blob \o [i \in 1..(4 - Len(blob)) |-> 0])
                      \o tiffBlockEntries(Tail(fields), valueOffset)
             ELSE ifdEntryBE(Head(fields).tag, 2, Len(blob), writeUint32BE(valueOffset))
                      \o tiffBlockEntries(Tail(fields), valueOffset + Len(blob))

RECURSIVE tiffBlockValues(_)
tiffBlockValues(fields) ==
    IF fields = <<>> THEN <<>>
    ELSE LET blob == valueBlob(Head(fields).value)
         IN  (IF Len(blob) > 4 THEN blob ELSE <<>>) \o tiffBlockValues(Tail(fields))

buildTiffBlock(fields) ==
    IF fields = <<>> THEN <<>>
    ELSE <<77, 77, 0, 42>> \o writeUint32BE(8)
            \o writeUint16BE(Len(fields))
            \o tiffBlockEntries(fields, 8 + 2 + Len(fields) * 12 + 4)
            \o writeUint32BE(0)
            \o tiffBlockValues(fields)

\* buildFields: the non-blank inject values in ascending tag order.  An
\* absent value is the empty string; values are ASCII, for which the UTF-8
\* encoding is the byte sequence itself.
buildFields(inject) ==
    LET add(tag, val) ==
            IF Len(trim(val)) > 0 THEN <<[tag |-> tag, value |-> trim(val)]>> ELSE <<>>
    IN  add(270, inject.imageDescription) \o add(305, inject.software)
            \o add(315, inject.artist) \o add(33432, inject.copyright)

buildJpegExifSegment(inject) ==
    LET fields == buildFields(inject)
    IN  IF fields = <<>> THEN <<>>
        ELSE LET tiff == buildTiffBlock(fields)
             IN  <<255, 225>> \o writeUint16BE(Len(tiff) + 6 + 2) \o SIG_EXIF \o tiff

buildRawExifBlock(inject) == buildTiffBlock(buildFields(inject))

\* ------------------------------------------------------------------------
\* detect.ts
\* ------------------------------------------------------------------------

MP4_BRANDS ==
    {<<109, 112, 52, 49>>, <<109, 112, 52, 50>>, <<109, 112, 52, 118>>,
     <<105, 115, 111, 109>>, <<105, 115, 111, 50>>, <<105, 115, 111, 51>>,
     <<105, 115, 111, 52>>, <<105, 115, 111, 53>>, <<105, 115, 111, 54>>,
     <<97, 118, 99, 49>>, <<100, 97, 115, 104>>, <<77, 52, 86, 32>>,
     <<77, 52, 65, 32>>, <<77, 52, 80, 32>>, <<102, 52, 118, 32>>,
     <<102, 52, 112, 32>>}

MOV_BRANDS == {<<113, 116, 32, 32>>, <<113, 116, 118, 114>>}

HEIC_BRANDS ==
    {<<104, 101, 105, 99>>, <<104, 101, 105, 120>>, <<104, 101, 118, 99>>,
     <<104, 101, 118, 120>>, <<104, 101, 105, 109>>, <<104, 101, 105, 115>>,
     <<104, 101, 118, 109>>, <<104, 101, 118, 115>>, <<109, 105, 102, 49>>,
     <<109, 115, 102, 49>>}

\* 'avif', 'avis'
AVIF_BRANDS == {<<97, 118, 105, 102>>, <<97, 118, 105, 115>>}

\* String.prototype.toLowerCase on the characters of a byte string
toLowerCase(s) ==
    [i \in 1..Len(s) |->
        IF (s[i] >= 65 /\ s[i] <= 90) \/ (s[i] >= 192 /\ s[i] <= 222 /\ s[i] # 215)
        THEN s[i] + 32 ELSE s[i]]

\* str.includes(pattern)
includes(str, pattern) == indexOf(str, pattern, 0) # -1

\* the compatible brand scan: 4-byte words at 16, 20, ... below min(length, 128)
compatibleBrand(data) ==
    LET known(cb) ==
            \/ trim(toLowerCase(cb)) \in AVIF_BRANDS \cup HEIC_BRANDS
            \/ cb \in MP4_BRANDS
        named(cb) ==
            IF cb \in AVIF_BRANDS THEN "avif"
            ELSE IF cb \in HEIC_BRANDS THEN "heic"
            ELSE "mp4"
        first(i) ==
            IF i = -1 THEN "none" ELSE named(trim(toLowerCase(slice(data, i, i + 4))))
    IN  IF Len(data) < 16 THEN "none"
        ELSE first(leastOr({i \in 16..(Min(Len(data), 128) - 4) :
                               (i - 16) % 4 = 0 /\ known(slice(data, i, i + 4))}, -1))

\* the ISOBMFF branch; "none" when it falls through
detectIsobmff(data) ==
    LET branded(brand, brandLc) ==
            IF brandLc \in HEIC_BRANDS THEN "heic"
            ELSE IF brandLc \in AVIF_BRANDS THEN "avif"
            ELSE IF brand \in MOV_BRANDS THEN "mov"
            ELSE IF brand \in MP4_BRANDS \/ startsWith(brandLc, <<109, 112, 52>>)
                    \/ brandLc = <<105, 115, 111, 109>> THEN "mp4"
            ELSE compatibleBrand(data)
    IN  IF ~(Len(data) >= 12 /\ matchesAt(data, 4, SIG_FTYP)) THEN "none"
        ELSE branded(slice(data, 8, 12), trim(toLowerCase(slice(data, 8, 12))))

\* tags of the IFD0 entries the detector looks at: the first 100 that fit
detectEntryOffsets(data) ==
    LET from(littleEndian, ifdOffset) ==
            IF ifdOffset + 2 > Len(data) THEN {}
            ELSE {ifdOffset + 2 + i * 12 :
                    i \in 0..(Min(Min(readUint16(data, ifdOffset, littleEndian), 100),
                                  (Len(data) - ifdOffset - 2) \div 12) - 1)}
    IN  from(At(data, 0) = 73, readUint32(data, 4, At(data, 0) = 73))

isDng(data) ==
    \E e \in detectEntryOffsets(data) : readUint16(data, e, At(data, 0) = 73) = 50706

detectRawFormat(data) ==
    LET named(make) ==
            IF includes(make, <<78, 73, 75, 79, 78>>) \/ includes(make, <<83, 79, 78, 89>>)
            THEN "raw" ELSE "unknown"
        valued(count, valueOffset) ==
            IF valueOffset + count <= Len(data)
            THEN named(slice(data, valueOffset, valueOffset + Min(count, 50)))
            ELSE "unknown"
        sized(le, entryOffset, count) ==
            valued(count, IF count <= 4 THEN entryOffset + 8
                          ELSE readUint32(data, entryOffset + 8, le))
        entry(le, entryOffset) ==
            IF entryOffset = -1 THEN "unknown"
            ELSE IF readUint16(data, entryOffset + 2, le) # 2 THEN "unknown"
            ELSE sized(le, entryOffset, readUint32(data, entryOffset + 4, le))
        scan(le) ==
            entry(le, leastOr({e \in detectEntryOffsets(data) :
                                  readUint16(data, e, le) = 271}, -1))
    IN  IF Len(data) > 10 /\ At(data, 8) = 67 /\ At(data, 9) = 82 THEN "raw"
        ELSE scan(At(data, 0) = 73)

isSvg(data) ==
    LET str     == toLowerCase(slice(data, 0, Min(Len(data), 4096)))
        trimmed == trim(str)
        svgTag  == <<60, 115, 118, 103>>
    IN  IF startsWith(trimmed, <<60, 63, 120, 109, 108>>) \/ startsWith(trimmed, svgTag)
        THEN includes(str, svgTag)
        ELSE /\ includes(str, <<120, 109, 108, 110, 115>>)
             /\ \/ includes(str, <<104, 116, 116, 112, 58, 47, 47, 119, 119, 119, 46,
                                   119, 51, 46, 111, 114, 103, 47, 50, 48, 48, 48, 47,
                                   115, 118, 103>>)
                \/ includes(str, svgTag)

detectFormat(data) ==
    IF Len(data) < 3 THEN "unknown"
    ELSE IF startsWith(data, SIG_JPEG) THEN "jpeg"
    ELSE IF Len(data) >= 8 /\ startsWith(data, SIG_PNG) THEN "png"
    ELSE IF Len(data) >= 6 /\ (startsWith(data, SIG_GIF87a) \/ startsWith(data, SIG_GIF89a))
         THEN "gif"
    ELSE IF Len(data) >= 12 /\ startsWith(data, SIG_RIFF) /\ matchesAt(data, 8, SIG_WEBP)
         THEN "webp"
    ELSE IF Len(data) >= 5 /\ startsWith(data, SIG_PDF) THEN "pdf"
    ELSE
      LET tiffKind(rawFormat) == IF rawFormat # "unknown" THEN rawFormat ELSE "tiff"
          afterIsobmff(isobmff) ==
              IF isobmff # "none" THEN isobmff
              ELSE IF Len(data) >= 8
                        /\ (startsWith(data, SIG_TIFF_LE) \/ startsWith(data, SIG_TIFF_BE))
                   THEN IF isDng(data) THEN "dng" ELSE tiffKind(detectRawFormat(data))
              ELSE IF isSvg(data) THEN "svg"
              ELSE "unknown"
      IN  afterIsobmff(detectIsobmff(data))

\* ------------------------------------------------------------------------
\* The WebP handler
\* ------------------------------------------------------------------------

CHUNKS ==
    [VP8  |-> <<86, 80, 56, 32>>, VP8L |-> <<86, 80, 56, 76>>,
     VP8X |-> <<86, 80, 56, 88>>, EXIF |-> <<69, 88, 73, 70>>,
     XMP  |-> <<88, 77, 80, 32>>, ICCP |-> <<73, 67, 67, 80>>,
     ANIM |-> <<65, 78, 73, 77>>, ANMF |-> <<65, 78, 77, 70>>,
     ALPH |-> <<65, 76, 80, 72>>]

WEBP_METADATA_CHUNKS == {CHUNKS.EXIF, CHUNKS.XMP}

WebpCorrupted == [ok |-> FALSE, chunks |-> <<>>]

RECURSIVE webpParseLoop(_, _, _, _)
webpParseLoop(data, offset, fileSize, chunks) ==
    IF ~(offset + 8 <= Len(data) /\ offset < fileSize)
    THEN [ok |-> TRUE, chunks |-> chunks]
    ELSE
      LET fourcc    == slice(data, offset, offset + 4)
          chunkSize == readUint32LE(data, offset + 4)
          start     == offset + 8
      IN  IF start + chunkSize > Len(data) THEN WebpCorrupted
          ELSE webpParseLoop(data, start + chunkSize + (chunkSize % 2), fileSize,
                             Append(chunks, [fourcc |-> fourcc,
                                             data   |-> slice(data, start,
                                                              start + chunkSize)]))

\* validateHeader and the chunk walk of webp.parseChunks
webpParseChunks(data) ==
    IF Len(data) < 12 \/ ~startsWith(data, SIG_RIFF) \/ ~matchesAt(data, 8, SIG_WEBP)
    THEN WebpCorrupted
    ELSE webpParseLoop(data, 12, readUint32LE(data, 4) + 8, <<>>)

NoSize == [ok |-> FALSE, width |-> 0, height |-> 0]

getSizeFromVp8x(chunk) ==
    IF Len(chunk.data) < 10 THEN NoSize
    ELSE [ok     |-> TRUE,
          width  |-> At(chunk.data, 4) + At(chunk.data, 5) * 256
                        + At(chunk.data, 6) * 65536 + 1,
          height |-> At(chunk.data, 7) + At(chunk.data, 8) * 256
                        + At(chunk.data, 9) * 65536 + 1]

getSizeFromVp8(chunk) ==
    LET signature == indexOf(chunk.data, <<157, 1, 42>>, 0)
        offset    == signature + 3
    IN  IF signature = -1 \/ offset + 4 > Len(chunk.data) THEN NoSize
        ELSE [ok     |-> TRUE,
              width  |-> readUint16LE(chunk.data, offset) % 16384,
              height |-> readUint16LE(chunk.data, offset + 2) % 16384]

getSizeFromVp8L(chunk) ==
    IF Len(chunk.data) < 5 THEN NoSize
    ELSE LET b1 == At(chunk.data, 1)
             b2 == At(chunk.data, 2)
             b3 == At(chunk.data, 3)
             b4 == At(chunk.data, 4)
         IN  [ok     |-> TRUE,
              width  |-> (b2 % 64) * 256 + b1 + 1,
              height |-> (b4 % 16) * 1024 + b3 * 4 + (b2 \div 64) + 1]

vp8LContainsAlpha(chunk) ==
    Len(chunk.data) >= 5 /\ (At(chunk.data, 4) \div 16) % 2 = 1

RECURSIVE vp8xScan(_, _, _)
\* the loop of createVp8xChunk: the dimensions and the flag bits after the
\* chunks from index i on; `acc` is [ok, width, height, flags]
vp8xScan(chunks, i, acc) ==
    IF i > Len(chunks) \/ ~acc.ok THEN acc
    ELSE
      LET chunk == chunks[i]
          sized(s) == [acc EXCEPT !.ok = s.ok, !.width = s.width, !.height = s.height]
          next ==
            CASE chunk.fourcc = CHUNKS.VP8X -> sized(getSizeFromVp8x(chunk))
              [] chunk.fourcc = CHUNKS.VP8 ->
                    IF acc.width = 0 THEN sized(getSizeFromVp8(chunk)) ELSE acc
              [] chunk.fourcc = CHUNKS.VP8L ->
                    LET a == IF acc.width = 0 THEN sized(getSizeFromVp8L(chunk)) ELSE acc
                    IN  IF vp8LContainsAlpha(chunk)
                        THEN [a EXCEPT !.flags = @ \cup {16}] ELSE a
              [] chunk.fourcc = CHUNKS.ICCP -> [acc EXCEPT !.flags = @ \cup {32}]
              [] chunk.fourcc = CHUNKS.ALPH -> [acc EXCEPT !.flags = @ \cup {16}]
              [] chunk.fourcc = CHUNKS.EXIF -> [acc EXCEPT !.flags = @ \cup {8}]
              [] chunk.fourcc = CHUNKS.XMP  -> [acc EXCEPT !.flags = @ \cup {4}]
              [] chunk.fourcc = CHUNKS.ANIM -> [acc EXCEPT !.flags = @ \cup {2}]
              [] OTHER -> acc
      IN  vp8xScan(chunks, i + 1, next)

RECURSIVE SumOf(_)
SumOf(S) == IF S = {} THEN 0 ELSE LET x == CHOOSE y \in S : TRUE IN x + SumOf(S \ {x})

\* v & 0xff, (v >> 8) & 0xff, (v >> 16) & 0xff of a value that may be -1
le24(v) == <<v % 256, (v \div 256) % 256, (v \div 65536) % 256>>

createVp8xChunk(chunks) ==
    LET built(scan) ==
            [ok     |-> scan.ok,
             fourcc |-> CHUNKS.VP8X,
             data   |-> <<SumOf(scan.flags), 0, 0, 0>>
                           \o le24(scan.width - 1) \o le24(scan.height - 1)]
    IN  built(vp8xScan(chunks, 1, [ok |-> TRUE, width |-> 0, height |-> 0, flags |-> {}]))

\* the bytes buildWebp writes for one chunk, pad byte included
webpChunkBytes(chunk) ==
    chunk.fourcc \o writeUint32LE(Len(chunk.data)) \o chunk.data
        \o (IF Len(chunk.data) % 2 = 1 THEN <<0>> ELSE <<>>)

buildWebp(chunks) ==
    LET body == concat([i \in 1..Len(chunks) |-> webpChunkBytes(chunks[i])])
    IN  SIG_RIFF \o writeUint32LE(4 + Len(body)) \o SIG_WEBP \o body

\* A rule that asks for the extended header on every file.  Not the
\* program's: the length bound of C4 must fail against it.
alwaysVp8x(chunks) == chunks = chunks

needsVp8x(chunks) ==
    \E i \in 1..Len(chunks) :
        chunks[i].fourcc \in {CHUNKS.ICCP, CHUNKS.ALPH, CHUNKS.ANIM, CHUNKS.EXIF, CHUNKS.XMP}

\* the chunks webp.remove keeps, before the extended header is regenerated
webpFiltered(chunks, opts) ==
    SelectSeq(chunks,
              LAMBDA c : /\ c.fourcc # CHUNKS.VP8X
                         /\ (c.fourcc = CHUNKS.ICCP => opts.preserveColorProfile)
                         /\ c.fourcc \notin WEBP_METADATA_CHUNKS)

webpRemove(data, opts) ==
    LET extended(filteredChunks, vp8x) ==
            IF ~vp8x.ok THEN [ok |-> FALSE, data |-> <<>>]
            ELSE [ok   |-> TRUE,
                  data |-> buildWebp(<<[fourcc |-> vp8x.fourcc, data |-> vp8x.data]>>
                                         \o filteredChunks)]
        rebuilt(filteredChunks) ==
            IF ~needsVp8x(filteredChunks)
            THEN [ok |-> TRUE, data |-> buildWebp(filteredChunks)]
            ELSE extended(filteredChunks, createVp8xChunk(filteredChunks))
        filtered(parsed) ==
            IF ~parsed.ok THEN [ok |-> FALSE, data |-> <<>>]
            ELSE rebuilt(webpFiltered(parsed.chunks, opts))
    IN  filtered(webpParseChunks(data))

webpGetMetadataTypes(data) ==
    LET name(c) == CASE c.fourcc = CHUNKS.EXIF -> "EXIF"
                     [] c.fourcc = CHUNKS.XMP  -> "XMP"
                     [] OTHER                  -> "ICC Profile"
        names(chunks) ==
            {name(chunks[i]) :
                i \in {j \in 1..Len(chunks) :
                          chunks[j].fourcc \in {CHUNKS.EXIF, CHUNKS.XMP, CHUNKS.ICCP}}}
    IN  names(webpParseChunks(data).chunks)

\* ------------------------------------------------------------------------
\* formats/gif.ts
\* ------------------------------------------------------------------------

RECURSIVE readSubBlocks(_, _)
\* nextOffset of gif.readSubBlocks, -1 when a sub-block is cut short
readSubBlocks(data, pos) ==
    IF pos >= Len(data) THEN pos
    ELSE LET blockSize == At(data, pos)
         IN  IF blockSize = 0 THEN pos + 1
             ELSE IF pos + 1 + blockSize > Len(data) THEN -1
             ELSE readSubBlocks(data, pos + 1 + blockSize)

GifCorrupted == [ok |-> FALSE, blocks |-> <<>>]

gifBlock(type, data, extensionType, applicationId) ==
    [type |-> type, data |-> data, extensionType |-> extensionType,
     applicationId |-> applicationId]

\* 3 * (1 << ((packed & 0x07) + 1))
colorTableSize(packed) == 3 * 2 ^ ((packed % 8) + 1)

RECURSIVE gifParseLoop(_, _, _)
\* the block loop of gif.parseBlocks.  A block without an `extensionType`
\* carries -1, an extension without an `applicationId` the empty string.
gifParseLoop(data, offset, blocks) ==
    IF offset >= Len(data) THEN [ok |-> TRUE, blocks |-> blocks]
    ELSE
      LET blockType == At(data, offset)
      IN  IF blockType = 59
          THEN [ok |-> TRUE, blocks |-> Append(blocks, gifBlock("trailer", <<59>>, -1, <<>>))]
          ELSE IF blockType = 33 THEN
            IF offset + 1 >= Len(data) THEN GifCorrupted
            ELSE
              LET extensionType == At(data, offset + 1)
                  body          == offset + 2
              IN  IF extensionType = 255 THEN
                    IF body + 12 > Len(data) THEN GifCorrupted
                    ELSE IF At(data, body) # 11 THEN
                      LET nextOffset == readSubBlocks(data, body)
                      IN  IF nextOffset = -1 THEN GifCorrupted
                          ELSE gifParseLoop(data, nextOffset,
                                 Append(blocks, gifBlock("extension",
                                                         slice(data, offset, nextOffset),
                                                         extensionType, <<>>)))
                    ELSE
                      LET nextOffset == readSubBlocks(data, body + 12)
                      IN  IF nextOffset = -1 THEN GifCorrupted
                          ELSE gifParseLoop(data, nextOffset,
                                 Append(blocks, gifBlock("extension",
                                                         slice(data, offset, nextOffset),
                                                         extensionType,
                                                         slice(data, body + 1, body + 12))))
                  ELSE
                    LET nextOffset == readSubBlocks(data, body)
                    IN  IF nextOffset = -1 THEN GifCorrupted
                        ELSE gifParseLoop(data, nextOffset,
                               Append(blocks, gifBlock("extension",
                                                       slice(data, offset, nextOffset),
                                                       extensionType, <<>>)))
          ELSE IF blockType = 44 THEN
            IF offset + 10 > Len(data) THEN GifCorrupted
            ELSE
              LET imagePackedByte == At(data, offset + 9)
                  tableEnd == offset + 10
                                + (IF imagePackedByte >= 128
                                   THEN colorTableSize(imagePackedByte) ELSE 0)
              IN  IF tableEnd > Len(data) \/ tableEnd >= Len(data) THEN GifCorrupted
                  ELSE
                    LET nextOffset == readSubBlocks(data, tableEnd + 1)
                    IN  IF nextOffset = -1 THEN GifCorrupted
                        ELSE gifParseLoop(data, nextOffset,
                               Append(blocks, gifBlock("image",
                                                       slice(data, offset, nextOffset),
                                                       -1, <<>>)))
          ELSE gifParseLoop(data, offset + 1, blocks)

gifParseBlocks(data) ==
    IF Len(data) < 6 \/ ~(startsWith(data, SIG_GIF87a) \/ startsWith(data, SIG_GIF89a))
    THEN GifCorrupted
    ELSE IF 13 > Len(data) THEN GifCorrupted
    ELSE
      LET packedByte == At(data, 10)
          tableSize  == IF packedByte >= 128 THEN colorTableSize(packedByte) ELSE 0
          fixed      == <<gifBlock("header", slice(data, 0, 6), -1, <<>>),
                          gifBlock("logical_screen", slice(data, 6, 13), -1, <<>>)>>
                          \o (IF packedByte >= 128
                              THEN <<gifBlock("global_color_table",
                                              slice(data, 13, 13 + tableSize), -1, <<>>)>>
                              ELSE <<>>)
      IN  IF 13 + tableSize > Len(data) THEN GifCorrupted
          ELSE gifParseLoop(data, 13 + tableSize, fixed)

isNetscapeExtension(block) ==
    /\ block.type = "extension" /\ block.extensionType = 255
    /\ startsWith(block.applicationId, <<78, 69, 84, 83, 67, 65, 80, 69>>)

isXmpExtension(block) ==
    /\ block.type = "extension" /\ block.extensionType = 255
    /\ includes(block.applicationId, <<88, 77, 80>>)

isCommentExtension(block) == block.type = "extension" /\ block.extensionType = 254

shouldKeepBlock(block) ==
    IF block.type # "extension" THEN TRUE
    ELSE IF block.extensionType = 249 THEN TRUE
    ELSE IF isNetscapeExtension(block) THEN TRUE
    ELSE IF isCommentExtension(block) THEN FALSE
    ELSE IF isXmpExtension(block) THEN FALSE
    ELSE IF block.extensionType = 255 THEN FALSE
    ELSE TRUE

buildGif(blocks) == concat([i \in 1..Len(blocks) |-> blocks[i].data])

gifRemove(data) ==
    LET parsed == gifParseBlocks(data)
    IN  IF ~parsed.ok THEN [ok |-> FALSE, data |-> <<>>]
        ELSE [ok |-> TRUE, data |-> buildGif(SelectSeq(parsed.blocks, shouldKeepBlock))]

gifGetMetadataTypes(data) ==
    LET named(b) ==
            \/ isCommentExtension(b)
            \/ isXmpExtension(b)
            \/ (b.type = "extension" /\ b.extensionType = 255
                  /\ ~isNetscapeExtension(b))
        name(b) == IF isCommentExtension(b) THEN "Comment"
                   ELSE IF isXmpExtension(b) THEN "XMP"
                   ELSE "Application"
        names(blocks) == {name(blocks[i]) : i \in {j \in 1..Len(blocks) : named(blocks[j])}}
    IN  names(gifParseBlocks(data).blocks)

\* ------------------------------------------------------------------------
\* formats/heic.ts (formats/avif.ts delegates to it)
\* ------------------------------------------------------------------------

\* box types, as the four bytes toAscii reads
BOX ==
    [meta |-> <<109, 101, 116, 97>>,  iinf |-> <<105, 105, 110, 102>>,
     infe |-> <<105, 110, 102, 101>>, iloc |-> <<105, 108, 111, 99>>,
     iprp |-> <<105, 112, 114, 112>>, ipco |-> <<105, 112, 99, 111>>,
     Exif |-> <<69, 120, 105, 102>>,  mime |-> <<109, 105, 109, 101>>,
     colr |-> <<99, 111, 108, 114>>,  iCCP |-> <<105, 67, 67, 80>>,
     mdat |-> <<109, 100, 97, 116>>]

\* 'application/rdf+xml'
MIME_RDF_XML ==
    <<97, 112, 112, 108, 105, 99, 97, 116, 105, 111, 110, 47,
      114, 100, 102, 43, 120, 109, 108>>

\* hi * 0x100000000 + lo of two uint32 words
u64(hi, lo) == IF hi > 0 THEN BigU32 ELSE lo

NoBoxHeader == [ok |-> FALSE, type |-> <<>>, size |-> 0, headerSize |-> 0]

\* heic.parseBoxHeader; ok = FALSE is the null result
parseBoxHeader(data, offset) ==
    LET header(size, type) ==
            IF size = 1
            THEN IF offset + 16 > Len(data) THEN NoBoxHeader
                 ELSE [ok |-> TRUE, type |-> type,
                       size |-> u64(readUint32BE(data, offset + 8),
                                    readUint32BE(data, offset + 12)),
                       headerSize |-> 16]
            ELSE [ok |-> TRUE, type |-> type,
                  size |-> IF size = 0 THEN Len(data) - offset ELSE size,
                  headerSize |-> 8]
    IN  IF offset + 8 > Len(data) THEN NoBoxHeader
        ELSE header(readUint32BE(data, offset), slice(data, offset + 4, offset + 8))

heicBox(header, offset) ==
    [type |-> header.type, offset |-> offset, size |-> header.size,
     headerSize |-> header.headerSize, dataOffset |-> offset + header.headerSize,
     dataSize |-> header.size - header.headerSize]

RECURSIVE heicBoxLoop(_, _, _)
\* the loop of heic.parseBoxes.  A box of size 0 (a 64-bit size field that
\* holds 0) does not advance the offset: the call never returns, which is
\* ok = FALSE here.
heicBoxLoop(data, offset, boxes) ==
    LET step(header) ==
            IF ~header.ok THEN [ok |-> TRUE, boxes |-> boxes]
            ELSE IF header.size = 0 THEN [ok |-> FALSE, boxes |-> boxes]
            ELSE heicBoxLoop(data, offset + header.size,
                             Append(boxes, heicBox(header, offset)))
    IN  IF offset >= Len(data) THEN [ok |-> TRUE, boxes |-> boxes]
        ELSE step(parseBoxHeader(data, offset))

parseBoxes(data) == heicBoxLoop(data, 0, <<>>)

RECURSIVE heicChildLoop(_, _, _, _)
heicChildLoop(data, offset, end, boxes) ==
    LET step(header) ==
            IF ~header.ok \/ header.size = 0 \/ offset + header.size > end THEN boxes
            ELSE heicChildLoop(data, offset + header.size, end,
                               Append(boxes, heicBox(header, offset)))
    IN  IF offset >= end THEN boxes
        ELSE step(parseBoxHeader(data, offset))

parseContainerBox(data, parent) ==
    heicChildLoop(data,
                  parent.dataOffset + (IF parent.type = BOX.meta THEN 4 ELSE 0),
                  parent.offset + parent.size, <<>>)

\* boxes.find(b => b.type === type) as an index, 0 when there is none
findBox(boxes, type) == FirstIndex({i \in 1..Len(boxes) : boxes[i].type = type})

readSizedValue(data, offset, size) ==
    IF size = 4 THEN readUint32BE(data, offset)
    ELSE IF size = 8 THEN u64(readUint32BE(data, offset), readUint32BE(data, offset + 4))
    ELSE 0

\* readSizedValue throws BufferOverflowError when the words do not fit
sizedValueFits(data, offset, size) ==
    size \notin {4, 8} \/ offset + size <= Len(data)

NoItemIds == [ok |-> TRUE, exifIds |-> {}, xmpIds |-> {}]

RECURSIVE infeLoop(_, _, _, _)
\* the infe walk of findMetadataItemIds; ok = FALSE when it never returns
infeLoop(data, offset, end, ids) ==
    LET typed(itemId, itemType, afterType) ==
            IF itemType = BOX.Exif
            THEN [ids EXCEPT !.exifIds = @ \cup {itemId}]
            ELSE IF itemType = BOX.mime
                      /\ includes(slice(data, afterType,
                                        afterType + Min(40, Len(data) - afterType)),
                                  MIME_RDF_XML)
            THEN [ids EXCEPT !.xmpIds = @ \cup {itemId}]
            ELSE ids
        entry(header, infeData, base) ==
            IF header.type = BOX.infe /\ infeData + 4 <= Len(data)
                  /\ At(data, infeData) >= 2 /\ base + 8 <= Len(data)
            THEN typed(readUint16BE(data, base), slice(data, base + 4, base + 8),
                       base + 8)
            ELSE ids
        step(header) ==
            IF ~header.ok \/ offset + header.size > end THEN ids
            ELSE IF header.size = 0 THEN [ids EXCEPT !.ok = FALSE]
            ELSE infeLoop(data, offset + header.size, end,
                          entry(header, offset + header.headerSize,
                                offset + header.headerSize + 4))
    IN  IF offset >= end THEN ids
        ELSE step(parseBoxHeader(data, offset))

findMetadataItemIds(data, metaChildren) ==
    LET idx == findBox(metaChildren, BOX.iinf)
    IN  IF idx = 0 THEN NoItemIds
        ELSE
          LET iinfBox == metaChildren[idx]
              offset  == iinfBox.dataOffset
              end     == iinfBox.offset + iinfBox.size
          IN  IF offset + 4 > Len(data) THEN NoItemIds
              ELSE LET count == IF At(data, offset) = 0 THEN 2 ELSE 4
                   IN  IF offset + 4 + count > Len(data) THEN NoItemIds
                       ELSE infeLoop(data, offset + 4 + count, end, NoItemIds)

RECURSIVE extentLoop(_, _, _, _, _, _)
\* the extents of one iloc item: [ok, offset, locations] after the loop.
\* `item` is [id, baseOffset, version, offsetSize, lengthSize, indexSize, wanted]
extentLoop(data, item, ext, extentCount, offset, locations) ==
    IF ext >= extentCount THEN [ok |-> TRUE, offset |-> offset, locations |-> locations]
    ELSE
      LET at == offset + (IF item.version >= 1 THEN item.indexSize ELSE 0)
      IN  IF at + item.offsetSize + item.lengthSize > Len(data)
          THEN [ok |-> TRUE, offset |-> at, locations |-> locations]
          ELSE
            LET extentOffset == readSizedValue(data, at, item.offsetSize)
                extentLength == readSizedValue(data, at + item.offsetSize, item.lengthSize)
                finalOffset  == item.baseOffset + extentOffset
                found == item.wanted /\ finalOffset + extentLength <= Len(data)
                            /\ extentLength > 0
            IN  extentLoop(data, item, ext + 1, extentCount,
                           at + item.offsetSize + item.lengthSize,
                           IF found
                           THEN locations \cup {[offset |-> finalOffset,
                                                 length |-> extentLength]}
                           ELSE locations)

RECURSIVE itemLoop(_, _, _, _, _, _, _)
\* the items of the iloc box: [ok, locations]; ok = FALSE when a read throws.
\* `sizes` is [version, offsetSize, lengthSize, baseOffsetSize, indexSize]
itemLoop(data, sizes, targetIds, ilocEnd, i, itemCount, state) ==
    IF ~(i < itemCount /\ state.offset < ilocEnd) THEN state
    ELSE
      LET idSize == IF sizes.version < 2 THEN 2 ELSE 4
          offset == state.offset
      IN  IF offset + idSize > Len(data) THEN state
          ELSE
            LET itemId == IF sizes.version < 2 THEN readUint16BE(data, offset)
                          ELSE readUint32BE(data, offset)
                baseAt == offset + idSize + (IF sizes.version >= 1 THEN 2 ELSE 0) + 2
                countAt == baseAt + sizes.baseOffsetSize
            IN  IF ~sizedValueFits(data, baseAt, sizes.baseOffsetSize)
                THEN [state EXCEPT !.ok = FALSE]
                ELSE IF countAt + 2 > Len(data) THEN [state EXCEPT !.offset = countAt]
                ELSE
                  LET item == [id |-> itemId,
                               baseOffset |-> readSizedValue(data, baseAt,
                                                             sizes.baseOffsetSize),
                               version |-> sizes.version,
                               offsetSize |-> sizes.offsetSize,
                               lengthSize |-> sizes.lengthSize,
                               indexSize |-> sizes.indexSize,
                               wanted |-> itemId \in targetIds]
                      next(done) ==
                          itemLoop(data, sizes, targetIds, ilocEnd, i + 1, itemCount,
                                   [ok |-> TRUE, offset |-> done.offset,
                                    locations |-> done.locations])
                  IN  next(extentLoop(data, item, 0, readUint16BE(data, countAt),
                                      countAt + 2, state.locations))

findItemLocations(data, metaChildren, targetIds) ==
    LET idx  == findBox(metaChildren, BOX.iloc)
        none == [ok |-> TRUE, offset |-> 0, locations |-> {}]
    IN  IF targetIds = {} \/ idx = 0 THEN none
        ELSE
          LET ilocBox == metaChildren[idx]
              offset  == ilocBox.dataOffset
          IN  IF offset + 8 > Len(data) THEN none
              ELSE
                LET version   == At(data, offset)
                    sizeByte1 == At(data, offset + 4)
                    sizeByte2 == At(data, offset + 5)
                    sizes == [version        |-> version,
                              offsetSize     |-> sizeByte1 \div 16,
                              lengthSize     |-> sizeByte1 % 16,
                              baseOffsetSize |-> sizeByte2 \div 16,
                              indexSize      |-> IF version >= 1 THEN sizeByte2 % 16
                                                 ELSE 0]
                    countSize == IF version < 2 THEN 2 ELSE 4
                    itemCount == IF version < 2 THEN readUint16BE(data, offset + 6)
                                 ELSE readUint32BE(data, offset + 6)
                IN  IF offset + 6 + countSize > Len(data) THEN none
                    ELSE itemLoop(data, sizes, targetIds,
                                  ilocBox.offset + ilocBox.size, 0, itemCount,
                                  [ok |-> TRUE, offset |-> offset + 6 + countSize,
                                   locations |-> {}])

\* [offset, length] of the children of the given types inside meta/iprp/ipco
ipcoLocations(data, metaChildren, types) ==
    LET listed(ipcoChildren) ==
            {[offset |-> ipcoChildren[i].dataOffset, length |-> ipcoChildren[i].dataSize] :
                i \in {j \in 1..Len(ipcoChildren) : ipcoChildren[j].type \in types}}
        inIpco(iprpChildren, ipcoIdx) ==
            IF ipcoIdx = 0 THEN {}
            ELSE listed(parseContainerBox(data, iprpChildren[ipcoIdx]))
        inIprp(iprpChildren) == inIpco(iprpChildren, findBox(iprpChildren, BOX.ipco))
        inMeta(iprpIdx) ==
            IF iprpIdx = 0 THEN {}
            ELSE inIprp(parseContainerBox(data, metaChildren[iprpIdx]))
    IN  inMeta(findBox(metaChildren, BOX.iprp))

\* heic.findMetadataLocations: the lists as sets (an entry is never listed
\* twice in `exif`; a repeated entry of `xmp` is zeroed to the same effect).
\* `returns` is FALSE when one of the box loops never ends, `ok` is FALSE
\* then and also when readSizedValue throws.
findMetadataLocations(data) ==
    LET none(ok, returns) == [ok |-> ok, returns |-> returns, exif |-> {}, xmp |-> {}]
        direct(metaChildren) ==
            {[offset |-> metaChildren[i].dataOffset,
              length |-> metaChildren[i].dataSize] :
                i \in {j \in 1..Len(metaChildren) : metaChildren[j].type = BOX.Exif}}
        located(metaChildren, ids, exifLocs, xmpLocs) ==
            IF ~ids.ok THEN none(FALSE, FALSE)
            ELSE IF ~exifLocs.ok \/ ~xmpLocs.ok THEN none(FALSE, TRUE)
            ELSE [ok   |-> TRUE,
                  returns |-> TRUE,
                  exif |-> ipcoLocations(data, metaChildren, {BOX.Exif})
                             \cup exifLocs.locations \cup direct(metaChildren),
                  xmp  |-> xmpLocs.locations]
        withIds(metaChildren, ids) ==
            LET locations == [wanted \in {ids.exifIds, ids.xmpIds} |->
                                findItemLocations(data, metaChildren, wanted)]
            IN  located(metaChildren, ids, locations[ids.exifIds], locations[ids.xmpIds])
        inMeta(metaChildren) ==
            withIds(metaChildren, findMetadataItemIds(data, metaChildren))
        inBoxes(boxes, metaIdx) ==
            IF ~boxes.ok THEN none(FALSE, FALSE)
            ELSE IF metaIdx = 0 THEN none(TRUE, TRUE)
            ELSE inMeta(parseContainerBox(data, boxes.boxes[metaIdx]))
        parsed(boxes) == inBoxes(boxes, findBox(boxes.boxes, BOX.meta))
    IN  parsed(parseBoxes(data))

findColorProfileLocations(data) ==
    LET inBoxes(boxes, metaIdx) ==
            IF ~boxes.ok \/ metaIdx = 0 THEN {}
            ELSE ipcoLocations(data, parseContainerBox(data, boxes.boxes[metaIdx]),
                               {BOX.colr, BOX.iCCP})
        parsed(boxes) == inBoxes(boxes, findBox(boxes.boxes, BOX.meta))
    IN  parsed(parseBoxes(data))

\* An eraser that cuts the located bytes out of the file instead of
\* overwriting them.  Not the program's: C3 must fail against it.
cutLocations(data, locations) ==
    SelectSeq([i \in 1..Len(data) |->
                  IF \E loc \in locations :
                        i - 1 >= loc.offset /\ i - 1 < loc.offset + loc.length
                  THEN -1 ELSE data[i]],
              LAMBDA b : b # -1)

\* An eraser that also clears the byte behind each location.  Not the
\* program's: C13 must fail against it.
overwriteOneTooFar(data, locations) ==
    [i \in 1..Len(data) |->
        IF \E loc \in locations : i - 1 >= loc.offset /\ i - 1 <= loc.offset + loc.length
        THEN 0 ELSE data[i]]

\* heic.overwriteWithZeros
overwriteWithZeros(data, locations) ==
    [i \in 1..Len(data) |->
        IF \E loc \in locations : i - 1 >= loc.offset /\ i - 1 < loc.offset + loc.length
        THEN 0 ELSE data[i]]

heicRemove(data, opts) ==
    IF Len(data) < 12 \/ slice(data, 4, 8) # SIG_FTYP THEN [ok |-> FALSE, data |-> <<>>]
    ELSE
      LET color == IF opts.preserveColorProfile THEN {}
                   ELSE findColorProfileLocations(data)
          erased(found) ==
              IF ~found.ok THEN [ok |-> FALSE, data |-> <<>>]
              ELSE [ok   |-> TRUE,
                    data |-> overwriteWithZeros(
                               overwriteWithZeros(
                                 overwriteWithZeros(data, found.exif), found.xmp),
                               color)]
      IN  erased(findMetadataLocations(data))

heicGetMetadataTypes(data) ==
    LET hasGpsTag(exifData) ==
            \/ indexOf(exifData, <<136, 37>>, 0) # -1
            \/ indexOf(exifData, <<37, 136>>, 0) # -1
        types(found) ==
            (IF found.exif # {} THEN {"EXIF"} ELSE {})
              \cup (IF \E loc \in found.exif :
                          hasGpsTag(slice(data, loc.offset, loc.offset + loc.length))
                    THEN {"GPS"} ELSE {})
              \cup (IF found.xmp # {} THEN {"XMP"} ELSE {})
              \cup (IF findColorProfileLocations(data) # {} THEN {"ICC Profile"} ELSE {})
    IN  types(findMetadataLocations(data))

\* ------------------------------------------------------------------------
\* formats/mp4.ts (MP4 and MOV)
\* ------------------------------------------------------------------------

\* the copyright sign of the QuickTime user-data atoms is the byte 0xA9
ZERO_ATOM_TYPES ==
    {<<169, 120, 121, 122>>, <<169, 103, 101, 111>>, <<108, 111, 99, 105>>,
     <<169, 109, 97, 107>>,  <<169, 109, 111, 100>>, <<169, 99, 112, 121>>,
     <<169, 115, 119, 114>>, <<169, 100, 97, 121>>,  <<169, 110, 97, 109>>,
     <<169, 100, 101, 115>>, <<169, 97, 117, 116>>,  <<169, 101, 110, 99>>,
     <<169, 105, 110, 102>>, <<169, 115, 114, 99>>,  <<169, 100, 105, 114>>,
     <<169, 112, 114, 100>>, <<169, 119, 114, 116>>, <<169, 101, 100, 108>>,
     <<88, 77, 80, 95>>,     <<117, 117, 105, 100>>}

\* moov, trak, mdia, minf, dinf, stbl, udta, meta, ilst
CONTAINER_ATOM_TYPES ==
    {<<109, 111, 111, 118>>, <<116, 114, 97, 107>>, <<109, 100, 105, 97>>,
     <<109, 105, 110, 102>>, <<100, 105, 110, 102>>, <<115, 116, 98, 108>>,
     <<117, 100, 116, 97>>,  <<109, 101, 116, 97>>,  <<105, 108, 115, 116>>}

ATOM_MVHD == <<109, 118, 104, 100>>

\* mp4.parseAtomHeader: the box header, null when the size is below the header
parseAtomHeader(data, offset) ==
    LET checked(header) ==
            IF header.ok /\ header.size < header.headerSize THEN NoBoxHeader ELSE header
    IN  checked(parseBoxHeader(data, offset))

RECURSIVE atomLoop(_, _, _, _)
atomLoop(data, offset, to, atoms) ==
    LET step(hdr) ==
            IF ~hdr.ok \/ hdr.size = 0 \/ offset + hdr.size > to + 8 THEN atoms
            ELSE atomLoop(data, offset + hdr.size, to, Append(atoms, heicBox(hdr, offset)))
    IN  IF offset >= to THEN atoms
        ELSE step(parseAtomHeader(data, offset))

parseAtoms(data, from, to) == atomLoop(data, from, to, <<>>)

\* data[i], -1 where the source reads `undefined`
byteOrUndefined(data, i) == IF i >= 0 /\ i < Len(data) THEN At(data, i) ELSE -1

zeroMvhdTimestamps(buf, atom) ==
    LET version == byteOrUndefined(buf, atom.dataOffset)
    IN  IF atom.dataSize < 4 THEN buf
        ELSE IF version = 0 /\ atom.dataSize >= 12
             THEN fill(buf, 0, atom.dataOffset + 4, atom.dataOffset + 12)
        ELSE IF version = 1 /\ atom.dataSize >= 24
             THEN fill(buf, 0, atom.dataOffset + 4, atom.dataOffset + 20)
        ELSE buf

\* the visitor of mp4.remove
zeroAtom(buf, atom) ==
    LET zeroed == IF atom.type \in ZERO_ATOM_TYPES
                  THEN fill(buf, 0, atom.dataOffset, atom.dataOffset + atom.dataSize)
                  ELSE buf
    IN  IF atom.type = ATOM_MVHD THEN zeroMvhdTimestamps(zeroed, atom) ELSE zeroed

\* where the children of a container atom start
childStart(atom) ==
    IF atom.type = <<109, 101, 116, 97>> THEN atom.dataOffset + 4 ELSE atom.dataOffset

RECURSIVE walkAtoms(_, _, _, _)
RECURSIVE visitAtoms(_, _, _, _)
\* mp4.walkAtoms with the visitor of mp4.remove: the buffer the walk leaves.
\* The atoms of a level are parsed before the first of them is visited; the
\* children of a container are parsed from the buffer as it then stands.
walkAtoms(buf, from, to, depth) ==
    IF depth > 10 THEN buf
    ELSE visitAtoms(buf, parseAtoms(buf, from, to), 1, depth)

visitAtoms(buf, atoms, i, depth) ==
    IF i > Len(atoms) THEN buf
    ELSE
      LET atom    == atoms[i]
          visited == zeroAtom(buf, atom)
          after   == IF atom.type \in CONTAINER_ATOM_TYPES
                     THEN walkAtoms(visited, childStart(atom),
                                    atom.dataOffset + atom.dataSize, depth + 1)
                     ELSE visited
      IN  visitAtoms(after, atoms, i + 1, depth)

mp4Remove(data) == [ok |-> TRUE, data |-> walkAtoms(data, 0, Len(data), 0)]

\* the visitor of mp4.getMetadataTypes
atomTypeName(data, atom) ==
    LET tsOffset == atom.dataOffset + 4
    IN  CASE atom.type \in {<<169, 120, 121, 122>>, <<108, 111, 99, 105>>,
                            <<169, 103, 101, 111>>}                 -> {"GPS"}
          [] atom.type \in {<<169, 109, 97, 107>>, <<169, 109, 111, 100>>}
                                                                    -> {"Camera Info"}
          [] atom.type = <<169, 99, 112, 121>>                      -> {"Copyright"}
          [] atom.type \in {<<169, 115, 119, 114>>, <<169, 101, 110, 99>>}
                                                                    -> {"Software"}
          [] atom.type = <<169, 100, 97, 121>>                      -> {"DateTime"}
          [] atom.type \in {<<88, 77, 80, 95>>, <<117, 117, 105, 100>>} -> {"XMP"}
          [] atom.type \in ZERO_ATOM_TYPES
               /\ atom.type \notin {<<169, 120, 121, 122>>, <<108, 111, 99, 105>>,
                                    <<169, 103, 101, 111>>, <<169, 109, 97, 107>>,
                                    <<169, 109, 111, 100>>, <<169, 99, 112, 121>>,
                                    <<169, 115, 119, 114>>, <<169, 101, 110, 99>>,
                                    <<169, 100, 97, 121>>, <<88, 77, 80, 95>>,
                                    <<117, 117, 105, 100>>}         -> {"Metadata"}
          [] atom.type = ATOM_MVHD /\ byteOrUndefined(data, atom.dataOffset) = 0
               /\ tsOffset + 8 <= Len(data) /\ readUint32BE(data, tsOffset) # 0
                                                                    -> {"Timestamps"}
          [] OTHER -> {}

RECURSIVE atomTypes(_, _, _, _)
\* mp4.walkAtoms with the visitor of mp4.getMetadataTypes: the names collected
atomTypes(data, from, to, depth) ==
    LET visit(atom) ==
            atomTypeName(data, atom)
              \cup (IF atom.type \in CONTAINER_ATOM_TYPES
                    THEN atomTypes(data, childStart(atom),
                                   atom.dataOffset + atom.dataSize, depth + 1)
                    ELSE {})
        walk(atoms) == UNION {visit(atoms[i]) : i \in 1..Len(atoms)}
    IN  IF depth > 10 THEN {}
        ELSE walk(parseAtoms(data, from, to))

mp4GetMetadataTypes(data) == atomTypes(data, 0, Len(data), 0)

\* ------------------------------------------------------------------------
\* The PDF handler.  The text the source hands to its regular expressions
\* is the byte string itself (one character per byte).
\* ------------------------------------------------------------------------

\* \s and \d of a regular expression, among single-byte characters
RegexSpace == {9, 10, 11, 12, 13, 32, 160}

RegexDigit == 48..57

\* the end of the longest run of `class` characters that starts at i
skipClass(text, i, class) ==
    IF i >= Len(text) THEN i
    ELSE leastOr({j \in i..Len(text) : j = Len(text) \/ At(text, j) \notin class}, i)

RECURSIVE Number(_)
\* Number(digits) of a run of decimal digits
Number(digits) ==
    IF digits = <<>> THEN 0
    ELSE Number(SubSeq(digits, 1, Len(digits) - 1)) * 10 + digits[Len(digits)] - 48

RECURSIVE toDecimal(_)
\* `${n}` of a natural number
toDecimal(n) == IF n < 10 THEN <<48 + n>> ELSE toDecimal(n \div 10) \o <<48 + (n % 10)>>

\* a match of  keyword \s+ (\d+) \s+ (\d+) \s+ R  that starts at i
refAt(text, i, keyword) ==
    LET matched(a, b, c, d, e, f) ==
            [ok |-> /\ b > a /\ c > b /\ d > c /\ e > d /\ f > e
                    /\ f < Len(text) /\ At(text, f) = 82,
             objectNum  |-> Number(slice(text, b, c)),
             generation |-> Number(slice(text, d, e))]
        fromE(a, b, c, d, e) == matched(a, b, c, d, e, skipClass(text, e, RegexSpace))
        fromD(a, b, c, d) == fromE(a, b, c, d, skipClass(text, d, RegexDigit))
        fromC(a, b, c) == fromD(a, b, c, skipClass(text, c, RegexSpace))
        fromB(a, b) == fromC(a, b, skipClass(text, b, RegexDigit))
        fromA(a) == fromB(a, skipClass(text, a, RegexSpace))
    IN  IF matchesAt(text, i, keyword) THEN fromA(i + Len(keyword))
        ELSE [ok |-> FALSE, objectNum |-> 0, generation |-> 0]

\* the leftmost match of the reference pattern in text: its start, -1 if none
refSearch(text, keyword) ==
    leastOr({i \in 0..(Len(text) - 1) : refAt(text, i, keyword).ok}, -1)

\* '/Encrypt'
KW_ENCRYPT == <<47, 69, 110, 99, 114, 121, 112, 116>>

\* '/Info'
KW_INFO == <<47, 73, 110, 102, 111>>

\* 'trailer', 'endobj', 'stream', 'endstream', ' obj'
KW_TRAILER == <<116, 114, 97, 105, 108, 101, 114>>

KW_ENDOBJ == <<101, 110, 100, 111, 98, 106>>

KW_STREAM == <<115, 116, 114, 101, 97, 109>>

KW_ENDSTREAM == <<101, 110, 100, 115, 116, 114, 101, 97, 109>>

KW_OBJ == <<111, 98, 106>>

isEncrypted(text) == refSearch(text, KW_ENCRYPT) # -1

\* the leading bytes of the file that remove and getMetadataTypes test
HEADER_WINDOW == 8192

findPattern(data, pattern, from) == indexOf(data, pattern, from)

NoInfoRef == [ok |-> FALSE, objectNum |-> 0, generation |-> 0]

\* the last 'trailer' that starts at or before length - 20, and the first
\* /Info reference in the 2048 characters from there
findInfoRef(data) ==
    LET matchAt(trailerText, m) ==
            IF m = -1 THEN NoInfoRef ELSE refAt(trailerText, m, KW_INFO)
        inTrailer(trailerText) == matchAt(trailerText, refSearch(trailerText, KW_INFO))
        from(i) ==
            IF i = -1 THEN NoInfoRef
            ELSE inTrailer(slice(data, i, Min(i + 2048, Len(data))))
    IN  from(greatestOr({i \in 0..(Len(data) - 20) : matchesAt(data, i, KW_TRAILER)},
                        -1))

NoRange == [ok |-> FALSE, start |-> 0, end |-> 0]

\* the first `N G obj` at a line or word start that has an `endobj` behind it
findObjectRange(data, objectNum, gen) ==
    LET rangeAt(marker, pos) ==
            IF pos = -1 THEN NoRange
            ELSE [ok |-> TRUE, start |-> pos,
                  end |-> findPattern(data, KW_ENDOBJ, pos + Len(marker)) + 6]
        search(marker) ==
            rangeAt(marker,
                    leastOr({pos \in 0..(Len(data) - Len(marker)) :
                                /\ matchesAt(data, pos, marker)
                                /\ (pos = 0 \/ At(data, pos - 1) \in {10, 13, 32})
                                /\ findPattern(data, KW_ENDOBJ, pos + Len(marker)) # -1},
                            -1))
    IN  search(toDecimal(objectNum) \o <<32>> \o toDecimal(gen) \o <<32>> \o KW_OBJ)

RECURSIVE blankedLiteral(_, _, _, _)
\* blankStringsInRange from offset i on, `depth` parentheses deep: the
\* offsets it overwrites with a space
blankedLiteral(data, i, end, depth) ==
    IF i >= end THEN {}
    ELSE IF depth = 0
         THEN blankedLiteral(data, i + 1, end, IF At(data, i) = 40 THEN 1 ELSE 0)
    ELSE
      LET c == At(data, i)
          d == IF c = 40 THEN depth + 1 ELSE IF c = 41 THEN depth - 1 ELSE depth
      IN  IF c = 92 THEN blankedLiteral(data, i + 2, end, depth)
          ELSE (IF d > 0 THEN {i} ELSE {}) \cup blankedLiteral(data, i + 1, end, d)

blankStringsInRange(data, start, end) ==
    LET blanked == blankedLiteral(data, start, end, 0)
    IN  [i \in 1..Len(data) |-> IF i - 1 \in blanked THEN 32 ELSE data[i]]

HexDigit == (48..57) \cup (65..70) \cup (97..102)

RECURSIVE blankedHex(_, _, _, _)
\* blankHexStringsInRange from offset i on, inside (`open`) or outside a
\* `<...>` run: the offsets it overwrites with '0'
blankedHex(data, i, end, open) ==
    IF i >= end THEN {}
    ELSE IF ~open
         THEN blankedHex(data, i + 1, end,
                         At(data, i) = 60 /\ i + 1 < end /\ At(data, i + 1) # 60)
    ELSE IF At(data, i) = 62 THEN blankedHex(data, i, end, FALSE)
    ELSE (IF At(data, i) \in HexDigit THEN {i} ELSE {})
            \cup blankedHex(data, i + 1, end, TRUE)

blankHexStringsInRange(data, start, end) ==
    LET blanked == blankedHex(data, start, end, FALSE)
    IN  [i \in 1..Len(data) |-> IF i - 1 \in blanked THEN 48 ELSE data[i]]

\* '/Subtype /XML', '/Subtype/XML', '/Type /Metadata', '/Type/Metadata'
XMP_INDICATORS ==
    <<<<47, 83, 117, 98, 116, 121, 112, 101, 32, 47, 88, 77, 76>>,
      <<47, 83, 117, 98, 116, 121, 112, 101, 47, 88, 77, 76>>,
      <<47, 84, 121, 112, 101, 32, 47, 77, 101, 116, 97, 100, 97, 116, 97>>,
      <<47, 84, 121, 112, 101, 47, 77, 101, 116, 97, 100, 97, 116, 97>>>>

\* the end of the longest run of `class` characters that ends at i
skipClassBack(text, i, class) ==
    IF i <= 0 THEN i
    ELSE greatestOr({j \in 0..i : j = 0 \/ At(text, j - 1) \notin class}, i)

\* /(\d+)\s+(\d+)\s+obj\s*$/ on region: [ok, objNum]
objHeaderBefore(region) ==
    LET matched(o, a, b, c, d) ==
            [ok |-> /\ o >= 0 /\ matchesAt(region, o, KW_OBJ)
                    /\ a < o /\ b < a /\ c < b /\ d < c,
             objNum |-> Number(slice(region, d, c))]
        fromC(o, a, b, c) == matched(o, a, b, c, skipClassBack(region, c, RegexDigit))
        fromB(o, a, b) == fromC(o, a, b, skipClassBack(region, b, RegexSpace))
        fromA(o, a) == fromB(o, a, skipClassBack(region, a, RegexDigit))
        fromO(o) == fromA(o, skipClassBack(region, o, RegexSpace))
    IN  fromO(skipClassBack(region, Len(region), RegexSpace) - 3)

\* the places where an indicator occurs, in the order the source visits them
xmpCandidates(data) ==
    concat([k \in 1..Len(XMP_INDICATORS) |->
              LET hits == {pos \in 0..(Len(data) - 1) :
                              matchesAt(data, pos, XMP_INDICATORS[k])}
              IN  IF hits = {} THEN <<>>
                  ELSE [n \in 1..Cardinality(hits) |->
                          CHOOSE p \in hits :
                              Cardinality({q \in hits : q < p}) = n - 1]])

RECURSIVE xmpRangeLoop(_, _, _, _, _)
\* the candidates from index n on, with the object numbers seen so far
xmpRangeLoop(data, candidates, n, checked, ranges) ==
    LET ended(streamKeyword, streamStart, endstreamPos) ==
            IF streamKeyword = -1 \/ endstreamPos = -1
                  \/ findPattern(data, KW_ENDOBJ, endstreamPos) = -1
            THEN ranges
            ELSE ranges \cup {[start |-> streamStart, end |-> endstreamPos]}
        started(streamKeyword, streamStart) ==
            ended(streamKeyword, streamStart,
                  findPattern(data, KW_ENDSTREAM, streamStart))
        afterLf(streamKeyword, afterCr) ==
            started(streamKeyword,
                    afterCr + (IF byteOrUndefined(data, afterCr) = 10 THEN 1 ELSE 0))
        stream(streamKeyword) ==
            afterLf(streamKeyword,
                    streamKeyword + 6
                      + (IF byteOrUndefined(data, streamKeyword + 6) = 13 THEN 1 ELSE 0))
        visit(pos, objMatch) ==
            IF ~objMatch.ok \/ objMatch.objNum \in checked
            THEN xmpRangeLoop(data, candidates, n + 1, checked, ranges)
            ELSE xmpRangeLoop(data, candidates, n + 1, checked \cup {objMatch.objNum},
                              stream(findPattern(data, KW_STREAM, pos)))
        at(pos) == visit(pos, objHeaderBefore(slice(data, Max(0, pos - 512), pos)))
    IN  IF n > Len(candidates) THEN ranges
        ELSE at(candidates[n])

findXmpStreamRanges(data) == xmpRangeLoop(data, xmpCandidates(data), 1, {}, {})

RECURSIVE fillRanges(_, _)
fillRanges(buf, ranges) ==
    IF ranges = {} THEN buf
    ELSE LET r == CHOOSE x \in ranges : TRUE
         IN  fillRanges(fill(buf, 32, r.start, r.end), ranges \ {r})

pdfRemove(data) ==
    LET blankedIn(range) ==
            IF range.ok
            THEN blankHexStringsInRange(
                     blankStringsInRange(data, range.start, range.end),
                     range.start, range.end)
            ELSE data
        blanked(infoRef) ==
            IF infoRef.ok
            THEN blankedIn(findObjectRange(data, infoRef.objectNum, infoRef.generation))
            ELSE data
    IN  IF isEncrypted(slice(data, 0, Min(Len(data), HEADER_WINDOW)))
        THEN [ok |-> TRUE, data |-> data]
        ELSE [ok |-> TRUE,
              data |-> fillRanges(blanked(findInfoRef(data)), findXmpStreamRanges(data))]

\* a match of  /(key1|key2|...) \s* \(  somewhere in text
keyWithLiteral(text, keys) ==
    \E i \in 0..(Len(text) - 1) : \E key \in keys :
        /\ matchesAt(text, i, <<47>> \o key)
        /\ LET p == skipClass(text, i + 1 + Len(key), RegexSpace)
           IN  p < Len(text) /\ At(text, p) = 40

\* Author, Creator, Producer, Title, Subject
PDF_AUTHOR_KEYS ==
    {<<65, 117, 116, 104, 111, 114>>, <<67, 114, 101, 97, 116, 111, 114>>,
     <<80, 114, 111, 100, 117, 99, 101, 114>>, <<84, 105, 116, 108, 101>>,
     <<83, 117, 98, 106, 101, 99, 116>>}

\* CreationDate, ModDate
PDF_DATE_KEYS ==
    {<<67, 114, 101, 97, 116, 105, 111, 110, 68, 97, 116, 101>>,
     <<77, 111, 100, 68, 97, 116, 101>>}

pdfGetMetadataTypes(data) ==
    LET keysOf(obj) ==
            (IF keyWithLiteral(obj, PDF_AUTHOR_KEYS) THEN {"Author/Title"} ELSE {})
              \cup (IF keyWithLiteral(obj, PDF_DATE_KEYS) THEN {"Timestamps"} ELSE {})
        inRange(range) ==
            IF range.ok THEN keysOf(slice(data, range.start, range.end)) ELSE {}
        info(infoRef) ==
            IF infoRef.ok
            THEN {"Document Info"}
                   \cup inRange(findObjectRange(data, infoRef.objectNum,
                                                infoRef.generation))
            ELSE {}
    IN  IF isEncrypted(slice(data, 0, Min(Len(data), HEADER_WINDOW))) THEN {"Encrypted"}
        ELSE info(findInfoRef(data))
               \cup (IF findXmpStreamRanges(data) # {} THEN {"XMP"} ELSE {})

\* ------------------------------------------------------------------------
\* formats/tiff.ts: the TIFF handler
\* ------------------------------------------------------------------------

TAGS_TO_REMOVE == {270, 271, 272, 305, 306, 315, 33432, 34665, 34853, 700}

TiffHeaderCorrupted == [ok |-> FALSE, littleEndian |-> FALSE, ifdOffset |-> 0]

tiffParseHeader(data) ==
    IF Len(data) < 8 THEN TiffHeaderCorrupted
    ELSE IF startsWith(data, SIG_TIFF_LE)
         THEN [ok |-> TRUE, littleEndian |-> TRUE, ifdOffset |-> readUint32(data, 4, TRUE)]
    ELSE IF startsWith(data, SIG_TIFF_BE)
         THEN [ok |-> TRUE, littleEndian |-> FALSE, ifdOffset |-> readUint32(data, 4, FALSE)]
    ELSE TiffHeaderCorrupted

TiffIfdCorrupted == [ok |-> FALSE, entries |-> <<>>, nextIfdOffset |-> <<0, 0, 0, 0>>]

\* tiff.parseIfd: throws when an entry does not fit.  `count` and
\* `nextIfdOffset` are only ever written back in the byte order they were
\* read in, so the entry keeps the four bytes of each next to the number.
tiffParseIfd(data, offset, littleEndian) ==
    IF offset + 2 > Len(data) THEN TiffIfdCorrupted
    ELSE
      LET numEntries == readUint16(data, offset, littleEndian)
          end        == offset + 2 + numEntries * 12
      IN  IF end > Len(data) THEN TiffIfdCorrupted
          ELSE [ok      |-> TRUE,
                entries |->
                  [i \in 1..numEntries |->
                    LET pos == offset + 2 + (i - 1) * 12
                    IN  [tag           |-> readUint16(data, pos, littleEndian),
                         type          |-> readUint16(data, pos + 2, littleEndian),
                         count         |-> readUint32(data, pos + 4, littleEndian),
                         countBytes    |-> slice(data, pos + 4, pos + 8),
                         valueOffset   |-> readUint32(data, pos + 8, littleEndian),
                         rawValueBytes |-> slice(data, pos + 8, pos + 12)]],
                nextIfdOffset |->
                  IF end + 4 <= Len(data) THEN slice(data, end, end + 4)
                  ELSE <<0, 0, 0, 0>>]

shouldKeepTag(tag, opts) ==
    IF tag = 274 /\ opts.preserveOrientation THEN TRUE
    ELSE IF tag = 34675 /\ opts.preserveColorProfile THEN TRUE
    ELSE IF tag = 33432 /\ opts.preserveCopyright THEN TRUE
    ELSE tag \notin TAGS_TO_REMOVE

getValueSize(entry) == entrySize(entry.type, entry.count)

isInlineValue(entry) == getValueSize(entry) <= 4

\* the 12 bytes written for a kept entry
tiffEntryBytes(entry, littleEndian) ==
    writeUint16(entry.tag, littleEndian) \o writeUint16(entry.type, littleEndian)
        \o entry.countBytes \o entry.rawValueBytes

\* the rewritten IFD0: count, kept entries, next-IFD pointer
tiffIfdBytes(filteredEntries, nextIfdOffset, littleEndian) ==
    writeUint16(Len(filteredEntries), littleEndian)
        \o concat([k \in 1..Len(filteredEntries) |->
                      tiffEntryBytes(filteredEntries[k], littleEndian)])
        \o nextIfdOffset

\* A remover that rebuilds the file around the shortened IFD0, so that
\* everything behind the IFD moves forward.  Not the program's: the in-place
\* properties must fail against it.
tiffRemoveCompacting(data, opts) ==
    LET hdr  == tiffParseHeader(data)
        ifd0 == tiffParseIfd(data, hdr.ifdOffset, hdr.littleEndian)
        kept == SelectSeq(ifd0.entries, LAMBDA e : shouldKeepTag(e.tag, opts))
    IN  IF ~hdr.ok \/ ~ifd0.ok THEN [ok |-> FALSE, data |-> <<>>]
        ELSE [ok   |-> TRUE,
              data |-> slice(data, 0, hdr.ifdOffset)
                         \o tiffIfdBytes(kept, ifd0.nextIfdOffset, hdr.littleEndian)
                         \o slice(data, hdr.ifdOffset + 2 + Len(ifd0.entries) * 12 + 4,
                                  Len(data))]

\* tiff.remove
tiffRemove(data, opts) ==
    LET hdr  == tiffParseHeader(data)
        ifd0 == tiffParseIfd(data, hdr.ifdOffset, hdr.littleEndian)
    IN  IF ~hdr.ok \/ ~ifd0.ok THEN [ok |-> FALSE, data |-> <<>>]
        ELSE
          LET removedEntries  == SelectSeq(ifd0.entries,
                                           LAMBDA e : ~shouldKeepTag(e.tag, opts))
              filteredEntries == SelectSeq(ifd0.entries,
                                           LAMBDA e : shouldKeepTag(e.tag, opts))
              erased(i) == \E k \in 1..Len(removedEntries) :
                              /\ ~isInlineValue(removedEntries[k])
                              /\ i >= removedEntries[k].valueOffset
                              /\ i < removedEntries[k].valueOffset
                                       + getValueSize(removedEntries[k])
              zeroed == [i \in 1..Len(data) |-> IF erased(i - 1) THEN 0 ELSE data[i]]
              ifd    == tiffIfdBytes(filteredEntries, ifd0.nextIfdOffset, hdr.littleEndian)
              originalIfdEnd == hdr.ifdOffset + 2 + Len(ifd0.entries) * 12 + 4
          IN  IF removedEntries = <<>> THEN [ok |-> TRUE, data |-> data]
              ELSE [ok   |-> TRUE,
                    data |-> fill(set(zeroed, hdr.ifdOffset, ifd), 0,
                                  hdr.ifdOffset + Len(ifd), originalIfdEnd)]

getTagName(tag) ==
    CASE tag = 270   -> "ImageDescription"
      [] tag = 271   -> "Make"
      [] tag = 272   -> "Model"
      [] tag = 305   -> "Software"
      [] tag = 306   -> "DateTime"
      [] tag = 315   -> "Artist"
      [] tag = 700   -> "XMP"
      [] tag = 33432 -> "Copyright"
      [] tag = 34665 -> "EXIF"
      [] tag = 34853 -> "GPS"
      [] OTHER       -> "Tag"

tiffGetMetadataTypes(data) ==
    LET names(entries) ==
            {getTagName(entries[i].tag) :
                i \in {j \in 1..Len(entries) : entries[j].tag \in TAGS_TO_REMOVE}}
        listed(hdr) ==
            IF ~hdr.ok THEN {}
            ELSE names(tiffParseIfd(data, hdr.ifdOffset, hdr.littleEndian).entries)
    IN  listed(tiffParseHeader(data))

\* ------------------------------------------------------------------------
\* operations/remove.ts: processRemoval
\* ------------------------------------------------------------------------

injectIntoJpeg(data, segment) ==
    IF Len(data) < 2 \/ At(data, 0) # 255 \/ At(data, 1) # 216 THEN data
    ELSE slice(data, 0, 2) \o segment \o slice(data, 2, Len(data))

\* the eXIf chunk is written with a zero CRC, 12 bytes before the end
injectIntoPng(data, rawTiff) ==
    LET chunk    == writeUint32BE(Len(rawTiff)) \o T_eXIf \o rawTiff \o writeUint32BE(0)
        insertAt == Len(data) - 12
    IN  IF insertAt < 8 THEN data
        ELSE slice(data, 0, insertAt) \o chunk \o slice(data, insertAt, Len(data))

\* options.gpsRedact set to a precision that asks for re-injection
wantsGpsRedact(opts) == opts.gpsRedact \notin {"unset", "remove", "exact"}

RECURSIVE jpegGpsScan(_, _, _)
\* the APP1 walk that reads the coordinates ahead of the removal
jpegGpsScan(data, i, gps) ==
    LET next(segLen, found) ==
            jpegGpsScan(data, i + 2 + segLen, IF found.present THEN found ELSE gps)
        step(segLen) ==
            next(segLen,
                 IF At(data, i + 1) = 225 /\ matchesAt(data, i + 4, <<69, 120, 105, 102>>)
                 THEN readExifBlock(slice(data, i + 10, i + 2 + segLen))
                 ELSE NoGps)
    IN  IF ~(i < Len(data) - 3) \/ At(data, i) # 255 THEN gps
        ELSE step(At(data, i + 2) * 256 + At(data, i + 3))

preReadGps(data, format, opts) ==
    IF ~wantsGpsRedact(opts) THEN NoGps
    ELSE IF format = "jpeg" THEN jpegGpsScan(data, 2, NoGps)
    ELSE IF format \in {"tiff", "dng"} THEN readExifBlock(data)
    ELSE NoGps

\* handler.remove of the registry
\* The svg, dng and raw handlers are outside the model, and no input of the
\* model is detected as one of these formats.
handlerRemove(format, data, opts) ==
    CASE format = "jpeg" -> jpegRemove(data, opts)
      [] format = "png"  -> pngRemove(data, opts)
      [] format = "webp" -> webpRemove(data, opts)
      [] format = "gif"  -> gifRemove(data)
      [] format = "tiff" -> tiffRemove(data, opts)
      [] format \in {"heic", "avif"} -> heicRemove(data, opts)
      [] format = "pdf"  -> pdfRemove(data)
      [] format \in {"mp4", "mov"} -> mp4Remove(data)
      [] OTHER           -> [ok |-> FALSE, data |-> <<>>]

\* handler.getMetadataTypes of the registry.  It runs the parser that
\* handler.remove runs, and throws on the inputs on which that one throws.
handlerGetMetadataTypes(format, data) ==
    CASE format = "jpeg" -> jpegGetMetadataTypes(data)
      [] format = "png"  -> pngGetMetadataTypes(data)
      [] format = "webp" -> webpGetMetadataTypes(data)
      [] format = "gif"  -> gifGetMetadataTypes(data)
      [] format = "tiff" -> tiffGetMetadataTypes(data)
      [] format \in {"heic", "avif"} -> heicGetMetadataTypes(data)
      [] format = "pdf"  -> pdfGetMetadataTypes(data)
      [] format \in {"mp4", "mov"} -> mp4GetMetadataTypes(data)
      [] OTHER           -> {}

\* Whether the calls into the handler come back.  The loops of heic.parseBoxes
\* and heic.findMetadataItemIds add header.size to their offset and go on
\* for ever at a box whose 64-bit size field holds 0; every other parser
\* loop of the handlers advances or breaks.
handlerReturns(format, data) ==
    format \notin {"heic", "avif"} \/ findMetadataLocations(data).returns

\* whether handler.getMetadataTypes(data) throws: none of the handlers
\* catches what its parser throws
getMetadataTypesThrows(format, data) ==
    CASE format = "jpeg" -> ~parseSegments(data).ok
      [] format = "png"  -> ~pngParseChunks(data).ok
      [] format = "webp" -> ~webpParseChunks(data).ok
      [] format = "gif"  -> ~gifParseBlocks(data).ok
      [] format = "tiff" ->
            \/ ~tiffParseHeader(data).ok
            \/ ~tiffParseIfd(data, tiffParseHeader(data).ifdOffset,
                             tiffParseHeader(data).littleEndian).ok
      [] format \in {"heic", "avif"} -> ~findMetadataLocations(data).ok
      [] OTHER -> FALSE

reinjectGps(cleaned, format, opts, gps) ==
    IF ~(wantsGpsRedact(opts) /\ gps.present) THEN cleaned
    ELSE LET gpsTiff == buildRedactedGpsExif(gps.latitude, gps.longitude)
         IN  IF format = "jpeg" THEN injectIntoJpeg(cleaned, wrapInJpegApp1(gpsTiff))
             ELSE IF format = "png" THEN injectIntoPng(cleaned, gpsTiff)
             ELSE cleaned

injectMetadata(cleaned, format, opts) ==
    IF ~opts.inject.present THEN cleaned
    ELSE IF format = "jpeg" THEN injectIntoJpeg(cleaned, buildJpegExifSegment(opts.inject))
    ELSE IF format = "png" /\ Len(buildRawExifBlock(opts.inject)) > 0
         THEN injectIntoPng(cleaned, buildRawExifBlock(opts.inject))
    ELSE cleaned

\* A filter that drops nothing.  Not the program's: C21 must fail against it.
preservedNothing(opts) == {}

\* the names dropped from removedMetadata because their preserve flag is set
preservedNames(opts) ==
    {f \in DOMAIN FIELD_TO_PRESERVE : opts[FIELD_TO_PRESERVE[f]]}

\* No RemoveResult: a thrown error, or "NeverReturns" for a call that is
\* still running
Failure(format, error) ==
    [ok |-> FALSE, error |-> error, data |-> <<>>, format |-> format,
     removedMetadata |-> {}]

\* the part of processRemoval that follows handler.remove
removalResult(data, opts, format, gps, cleaned) ==
    IF ~cleaned.ok THEN Failure(format, "CorruptedFileError")
    ELSE [ok |-> TRUE, error |-> "none",
          data |-> injectMetadata(reinjectGps(cleaned.data, format, opts, gps),
                                  format, opts),
          format |-> format,
          removedMetadata |->
              handlerGetMetadataTypes(format, data) \ preservedNames(opts)]

\* the part of processRemoval that follows detectFormat
removalOf(data, opts, format) ==
    IF format = "unknown" THEN Failure(format, "UnsupportedFormatError")
    ELSE IF ~handlerReturns(format, data) THEN Failure(format, "NeverReturns")
    ELSE removalResult(data, opts, format, preReadGps(data, format, opts),
                       handlerRemove(format, data, opts))

processRemoval(data, rawOptions) ==
    removalOf(data, applyFieldOptions(rawOptions), detectFormat(data))

\* What an inspection hands back.  getMetadataTypes returns the list alone,
\* verifyCleanSync the record {clean, format, remainingMetadata}; ok = FALSE
\* is a thrown error or a call that is still running.
Inspection(format, ok, error, names) ==
    [ok |-> ok, error |-> error, format |-> format, clean |-> ok /\ names = {},
     remainingMetadata |-> names]

\* handler.getMetadataTypes(data) as the callers of the handler see it
inspectionOf(data, format) ==
    IF ~handlerReturns(format, data) THEN Inspection(format, FALSE, "NeverReturns", {})
    ELSE IF getMetadataTypesThrows(format, data)
         THEN Inspection(format, FALSE, "CorruptedFileError", {})
    ELSE Inspection(format, TRUE, "none", handlerGetMetadataTypes(format, data))

\* remove.getMetadataTypes
getMetadataTypes(data) ==
    LET listed(format) ==
            IF format = "unknown" THEN Inspection(format, TRUE, "none", {})
            ELSE inspectionOf(data, format)
    IN  listed(detectFormat(data))

\* verify.verifyCleanSync: every format but 'unknown' has a checker
verifyCleanSync(data) ==
    LET checked(format) ==
            IF format = "unknown" THEN Inspection(format, TRUE, "none", {})
            ELSE inspectionOf(data, format)
    IN  checked(detectFormat(data))

\* ------------------------------------------------------------------------
\* Input families
\* ------------------------------------------------------------------------

\* all sequences over S of length at most n
SeqsUpTo(S, n) == UNION {[1..k -> S] : k \in 0..n}

NoInject ==
    [present |-> FALSE, imageDescription |-> <<>>, software |-> <<>>,
     artist |-> <<>>, copyright |-> <<>>]

DefaultOptions ==
    [preserveOrientation |-> FALSE, preserveColorProfile |-> FALSE,
     preserveCopyright |-> FALSE, preserveTitle |-> FALSE,
     preserveDescription |-> FALSE, remove |-> {}, keep |-> {},
     gpsRedact |-> "unset", inject |-> NoInject]

\* The policies every input is stripped under: the defaults, the legacy
\* flags, field lists, each GPS precision, and an injection of "me" as the
\* copyright string.
Policies ==
    {DefaultOptions,
     [DefaultOptions EXCEPT !.preserveOrientation = TRUE],
     [DefaultOptions EXCEPT !.preserveColorProfile = TRUE],
     [DefaultOptions EXCEPT !.preserveCopyright = TRUE],
     [DefaultOptions EXCEPT !.remove = {"GPS"}],
     [DefaultOptions EXCEPT !.remove = {"GPS"}, !.keep = {"GPS"}],
     [DefaultOptions EXCEPT !.remove = {"ICC Profile"}, !.preserveColorProfile = TRUE],
     [DefaultOptions EXCEPT !.keep = {"Orientation"}],
     [DefaultOptions EXCEPT !.inject = [NoInject EXCEPT !.present = TRUE,
                                                         !.copyright = <<109, 101>>]]}
    \cup {[DefaultOptions EXCEPT !.gpsRedact = p] :
            p \in {"exact", "city", "region", "country", "remove"}}

\* --- JPEG ---

jpegSegment(markerType, payload) ==
    <<255, markerType>> \o writeUint16BE(Len(payload) + 2) \o payload

ifdEntryLE(tag, type, count, valueBytes) ==
    writeUint16LE(tag) \o writeUint16LE(type) \o writeUint32LE(count) \o valueBytes

rationalsLE(dms) ==
    concat([i \in 1..3 |-> writeUint32LE(dms[i][1]) \o writeUint32LE(dms[i][2])])

NoFix == [present |-> FALSE]

\* 51 1/2 N, 1/8 W
FixLondon ==
    [present |-> TRUE,
     latRef |-> 78, lat |-> <<<<103, 2>>, <<0, 1>>, <<0, 1>>>>,
     lngRef |-> 87, lng |-> <<<<1, 8>>, <<0, 1>>, <<0, 1>>>>]

\* 0 0' 0.001" S, 48 51' 29.6" E
FixEquator ==
    [present |-> TRUE,
     latRef |-> 83, lat |-> <<<<0, 1>>, <<0, 1>>, <<1, 1000>>>>,
     lngRef |-> 69, lng |-> <<<<48, 1>>, <<51, 1>>, <<296, 10>>>>]

\* A little-endian EXIF block: IFD0 with an optional Orientation entry and
\* an optional pointer to a GPS IFD that follows IFD0.
exifBlock(orientation, fix) ==
    LET n      == (IF orientation # NoOrientation THEN 1 ELSE 0)
                  + (IF fix.present THEN 1 ELSE 0)
        gpsIfd == 8 + 2 + 12 * n + 4
        values == gpsIfd + 2 + 4 * 12 + 4
    IN  SIG_TIFF_LE \o writeUint32LE(8) \o writeUint16LE(n)
          \o (IF orientation # NoOrientation
              THEN ifdEntryLE(274, 3, 1, writeUint16LE(orientation) \o <<0, 0>>)
              ELSE <<>>)
          \o (IF fix.present THEN ifdEntryLE(34853, 4, 1, writeUint32LE(gpsIfd)) ELSE <<>>)
          \o writeUint32LE(0)
          \o (IF fix.present
              THEN writeUint16LE(4)
                     \o ifdEntryLE(1, 2, 2, <<fix.latRef, 0, 0, 0>>)
                     \o ifdEntryLE(2, 5, 3, writeUint32LE(values))
                     \o ifdEntryLE(3, 2, 2, <<fix.lngRef, 0, 0, 0>>)
                     \o ifdEntryLE(4, 5, 3, writeUint32LE(values + 24))
                     \o writeUint32LE(0)
                     \o rationalsLE(fix.lat) \o rationalsLE(fix.lng)
              ELSE <<>>)

exifSegment(orientation, fix) == jpegSegment(225, SIG_EXIF \o exifBlock(orientation, fix))

\* JFIF header, EXIF with orientation 6, EXIF with a position, a comment,
\* an ICC profile
JpegBlocks ==
    {jpegSegment(224, <<74, 70, 73, 70, 0>>),
     exifSegment(6, NoFix),
     exifSegment(6, FixLondon),
     exifSegment(NoOrientation, FixEquator),
     jpegSegment(254, <<104, 105>>),
     jpegSegment(226, SIG_ICC \o <<1, 1, 7>>)}

\* the scan with its end marker, or nothing (a file cut after the headers)
JpegTails == {<<>>, jpegSegment(218, <<1, 0>>) \o <<18, 52, 255, 217>>}

JpegInputs ==
    {JPEG_SOI \o concat(blocks) \o tail :
        blocks \in SeqsUpTo(JpegBlocks, MaxBlocks), tail \in JpegTails}

\* --- PNG ---

pngChunk(type, data, crcValid) ==
    writeUint32BE(Len(data)) \o type \o data
        \o (IF crcValid THEN crc32Png(type, data) ELSE <<0, 0, 0, 0>>)

\* text, EXIF with orientation 6, ICC profile, a private ancillary chunk
PngBlocks(crcValid) ==
    {pngChunk(T_tEXt, <<65, 0, 66>>, crcValid),
     pngChunk(T_eXIf, exifBlock(6, NoFix), crcValid),
     pngChunk(T_iCCP, <<112, 0, 0>>, crcValid),
     pngChunk(T_prVt, <<9>>, crcValid)}

PngInputs ==
    UNION {{SIG_PNG \o pngChunk(T_IHDR, <<0, 0, 0, 1, 0, 0, 0, 1, 8, 0, 0, 0, 0>>, v)
                \o concat(blocks) \o pngChunk(T_IDAT, <<120, 1>>, v)
                \o pngChunk(T_IEND, <<>>, v) :
              blocks \in SeqsUpTo(PngBlocks(v), MaxBlocks)} : v \in BOOLEAN}

\* the bytes when the part is present, nothing otherwise
opt(present, bytes) == IF present THEN bytes ELSE <<>>

\* --- TIFF ---

tiffEntry(tag, type, count, valueBytes, le) ==
    writeUint16(tag, le) \o writeUint16(type, le) \o writeUint32(count, le) \o valueBytes

\* the pixel bytes of the single strip
STRIP_DATA == <<170, 187, 204, 221>>

\* where the strip of a TIFF input lies: behind the value area, between the
\* header and IFD0, on the bytes of the ImageDescription value, or on the
\* last entry of IFD0
TiffLayouts == {"after", "before", "value", "table"}

\* A TIFF in either byte order: ImageWidth, StripOffsets and StripByteCounts,
\* and any of ImageDescription (out of line), Orientation, Software (inline)
\* and Copyright (out of line).
tiffInput(le, hasDesc, hasOrientation, hasSoftware, hasCopyright, layout) ==
    LET n == 3 + (IF hasDesc THEN 1 ELSE 0) + (IF hasOrientation THEN 1 ELSE 0)
               + (IF hasSoftware THEN 1 ELSE 0) + (IF hasCopyright THEN 1 ELSE 0)
        ifdOffset   == IF layout = "before" THEN 12 ELSE 8
        valuesStart == ifdOffset + 2 + 12 * n + 4
        stripOffset == CASE layout = "before" -> 8
                         [] layout = "value" /\ hasDesc -> valuesStart
                         [] layout = "table" -> ifdOffset + 2 + 12 * (n - 1)
                         [] OTHER -> valuesStart + 12
    IN  (IF le THEN SIG_TIFF_LE ELSE SIG_TIFF_BE) \o writeUint32(ifdOffset, le)
          \o opt(layout = "before", STRIP_DATA)
          \o writeUint16(n, le)
          \o tiffEntry(256, 3, 1, writeUint16(2, le) \o <<0, 0>>, le)
          \o opt(hasDesc, tiffEntry(270, 2, 5, writeUint32(valuesStart, le), le))
          \o tiffEntry(273, 4, 1, writeUint32(stripOffset, le), le)
          \o opt(hasOrientation, tiffEntry(274, 3, 1, writeUint16(6, le) \o <<0, 0>>, le))
          \o tiffEntry(279, 4, 1, writeUint32(Len(STRIP_DATA), le), le)
          \o opt(hasSoftware, tiffEntry(305, 2, 2, <<115, 0, 0, 0>>, le))
          \o opt(hasCopyright, tiffEntry(33432, 2, 5, writeUint32(valuesStart + 6, le), le))
          \o writeUint32(0, le)
          \o <<68, 101, 115, 99, 0, 0>> \o <<40, 99, 41, 65, 0, 0>>
          \o opt(layout # "before", STRIP_DATA)

TiffInputs ==
    {tiffInput(le, d, o, s, c, layout) :
        le \in BOOLEAN, d \in BOOLEAN, o \in BOOLEAN, s \in BOOLEAN, c \in BOOLEAN,
        layout \in TiffLayouts}

\* --- WebP ---

\* a RIFF chunk; an odd-sized one is followed by its pad byte when `padded`
webpChunk(fourcc, data, padded) ==
    fourcc \o writeUint32LE(Len(data)) \o data
        \o opt(Len(data) % 2 = 1 /\ padded, <<0>>)

\* a VP8 bitstream header of a 2 x 3 picture, one byte longer when `odd`
vp8Data(odd) == <<0, 0, 0, 157, 1, 42, 2, 0, 3, 0>> \o opt(odd, <<7>>)

\* An optional extended header, optional ICCP and ALPH chunks, the picture,
\* optional EXIF and XMP chunks.  The last chunk of the file goes without its
\* pad byte when `tailPadded` is false.
webpInput(hasVp8x, hasIccp, hasAlph, imageOdd, hasExif, hasXmp, tailPadded) ==
    LET followed == hasExif \/ hasXmp
        body ==opt(hasVp8x, webpChunk(CHUNKS.VP8X, <<60, 0, 0, 0, 1, 0, 0, 2, 0, 0>>, TRUE))
                  \o opt(hasIccp, webpChunk(CHUNKS.ICCP, <<1, 2>>, TRUE))
                  \o opt(hasAlph, webpChunk(CHUNKS.ALPH, <<5, 6>>, TRUE))
                  \o webpChunk(CHUNKS.VP8, vp8Data(imageOdd), followed \/ tailPadded)
                  \o opt(hasExif, webpChunk(CHUNKS.EXIF, <<77, 77, 0, 42>>, TRUE))
                  \o opt(hasXmp, webpChunk(CHUNKS.XMP, <<60, 120, 62>>, tailPadded))
    IN  SIG_RIFF \o writeUint32LE(4 + Len(body)) \o SIG_WEBP \o body

WebpInputs ==
    {webpInput(x, i, a, odd, e, m, padded) :
        x \in BOOLEAN, i \in BOOLEAN, a \in BOOLEAN, odd \in BOOLEAN,
        e \in BOOLEAN, m \in BOOLEAN, padded \in BOOLEAN}

\* a VP8L bitstream header of a 2 x 3 picture without alpha
vp8lData == <<47, 1, 128, 0, 0, 0>>

\* a lossless picture, alone or behind an extended header, with any of an
\* EXIF and an XMP chunk
losslessWebp(hasVp8x, hasExif, hasXmp) ==
    LET body == opt(hasVp8x, webpChunk(CHUNKS.VP8X, <<12, 0, 0, 0, 1, 0, 0, 2, 0, 0>>, TRUE))
                  \o webpChunk(CHUNKS.VP8L, vp8lData, TRUE)
                  \o opt(hasExif, webpChunk(CHUNKS.EXIF, <<77, 77, 0, 42>>, TRUE))
                  \o opt(hasXmp, webpChunk(CHUNKS.XMP, <<60, 120, 62>>, TRUE))
    IN  SIG_RIFF \o writeUint32LE(4 + Len(body)) \o SIG_WEBP \o body

\* an ANMF frame at the origin, 2 x 3, shown for 100 ms, holding a VP8
\* picture
anmfData == <<0, 0, 0, 0, 0, 0, 1, 0, 0, 2, 0, 0, 100, 0, 0, 0>>
                \o webpChunk(CHUNKS.VP8, vp8Data(FALSE), TRUE)

\* an animation: the extended header of a 2 x 3 canvas, ANIM, one or two
\* frames, and any of an EXIF and an XMP chunk
animatedWebp(twoFrames, hasExif, hasXmp) ==
    LET body == webpChunk(CHUNKS.VP8X, <<14, 0, 0, 0, 1, 0, 0, 2, 0, 0>>, TRUE)
                  \o webpChunk(CHUNKS.ANIM, <<0, 0, 0, 0, 0, 0>>, TRUE)
                  \o webpChunk(CHUNKS.ANMF, anmfData, TRUE)
                  \o opt(twoFrames, webpChunk(CHUNKS.ANMF, anmfData, TRUE))
                  \o opt(hasExif, webpChunk(CHUNKS.EXIF, <<77, 77, 0, 42>>, TRUE))
                  \o opt(hasXmp, webpChunk(CHUNKS.XMP, <<60, 120, 62>>, TRUE))
    IN  SIG_RIFF \o writeUint32LE(4 + Len(body)) \o SIG_WEBP \o body

LosslessWebps ==
    {losslessWebp(x, e, m) : x \in BOOLEAN, e \in BOOLEAN, m \in BOOLEAN}

AnimatedWebps ==
    {animatedWebp(t, e, m) : t \in BOOLEAN, e \in BOOLEAN, m \in BOOLEAN}

\* --- GIF ---

\* an application extension: 11 bytes of identifier and code, one sub-block
gifAppExtension(identifier, payload) ==
    <<33, 255, 11>> \o identifier \o <<Len(payload)>> \o payload \o <<0>>

\* 'NETSCAPE2.0'
GIF_NETSCAPE == <<78, 69, 84, 83, 67, 65, 80, 69, 50, 46, 48>>

\* 'XMP DataXMP'
GIF_XMP == <<88, 77, 80, 32, 68, 97, 116, 97, 88, 77, 80>>

\* 'ACMETOOL1.0', an application of its own
GIF_PRIVATE == <<65, 67, 77, 69, 84, 79, 79, 76, 49, 46, 48>>

\* A GIF89a with or without a global colour table of two entries, any of a
\* comment, an XMP packet, a loop count and a private application block, one
\* picture with its graphic control, and the trailer unless the file is cut.
gifInput(hasTable, hasComment, hasXmp, hasLoop, hasPrivate, hasTrailer) ==
    SIG_GIF89a \o <<1, 0, 1, 0, IF hasTable THEN 128 ELSE 0, 0, 0>>
      \o opt(hasTable, <<0, 0, 0, 255, 255, 255>>)
      \o opt(hasLoop, gifAppExtension(GIF_NETSCAPE, <<1, 0, 0>>))
      \o opt(hasComment, <<33, 254, 2, 104, 105, 0>>)
      \o opt(hasXmp, gifAppExtension(GIF_XMP, <<60, 120, 62>>))
      \o opt(hasPrivate, gifAppExtension(GIF_PRIVATE, <<9>>))
      \o <<33, 249, 4, 0, 0, 0, 0, 0>>
      \o <<44, 0, 0, 0, 0, 1, 0, 1, 0, 0, 2, 2, 76, 1, 0>>
      \o opt(hasTrailer, <<59>>)

GifInputs ==
    {gifInput(t, c, x, l, p, e) :
        t \in BOOLEAN, c \in BOOLEAN, x \in BOOLEAN, l \in BOOLEAN,
        p \in BOOLEAN, e \in BOOLEAN}

\* an application extension whose first block holds `identifier`, of a
\* length other than 11, and one sub-block <<1, 2, 3>>
gifOddExtension(identifier) ==
    <<33, 255, Len(identifier)>> \o identifier \o <<3, 1, 2, 3, 0>>

\* 'ABCDEFGH'
GIF_SHORT_ID == <<65, 66, 67, 68, 69, 70, 71, 72>>

\* 'ABCDEFGHIJKL'
GIF_LONG_ID == <<65, 66, 67, 68, 69, 70, 71, 72, 73, 74, 75, 76>>

\* A GIF89a without colour table whose application extension has an
\* identifier block of 8 or 12 bytes, an optional comment, one picture.
OddGifInputs ==
    {SIG_GIF89a \o <<1, 0, 1, 0, 0, 0, 0>>
       \o opt(c, <<33, 254, 2, 104, 105, 0>>)
       \o gifOddExtension(identifier)
       \o <<44, 0, 0, 0, 0, 1, 0, 1, 0, 0, 2, 2, 68, 1, 0>>
       \o opt(e, <<59>>) :
        identifier \in {GIF_SHORT_ID, GIF_LONG_ID}, c \in BOOLEAN, e \in BOOLEAN}

\* --- HEIC and AVIF ---

\* an ISO base media box with a 32-bit size
isoBox(type, payload) == writeUint32BE(8 + Len(payload)) \o type \o payload

\* an item information entry (version 2) of the given item type
infeBox(itemId, itemType, rest) ==
    isoBox(BOX.infe, <<2, 0, 0, 0, 0, itemId, 0, 0>> \o itemType \o <<0>> \o rest)

\* an item of an iloc box (version 0, 4-byte offsets and lengths): one extent
ilocItem(itemId, offset, length) ==
    <<0, itemId, 0, 0, 0, 1>> \o writeUint32BE(offset) \o writeUint32BE(length)

\* an EXIF payload that names the GPS IFD pointer (0x8825) or does not
heicExifPayload(hasGps) ==
    <<0, 0, 0, 0, 77, 77, 0, 42>> \o (IF hasGps THEN <<136, 37>> ELSE <<1, 18>>)

HEIC_XMP_PAYLOAD == <<60, 120, 62, 0>>

\* the meta box with its items located at the given file offsets
heicMeta(hasExif, hasGps, hasXmp, hasColr, exifOffset, xmpOffset) ==
    LET nItems == (IF hasExif THEN 1 ELSE 0) + (IF hasXmp THEN 1 ELSE 0)
    IN  isoBox(BOX.meta,
          <<0, 0, 0, 0>>
            \o opt(nItems > 0,
                 isoBox(BOX.iinf,
                        <<0, 0, 0, 0, 0, nItems>>
                          \o opt(hasExif, infeBox(1, BOX.Exif, <<>>))
                          \o opt(hasXmp, infeBox(2, BOX.mime, MIME_RDF_XML \o <<0>>)))
                 \o isoBox(BOX.iloc,
                        <<0, 0, 0, 0, 68, 0, 0, nItems>>
                          \o opt(hasExif, ilocItem(1, exifOffset,
                                                   Len(heicExifPayload(hasGps))))
                          \o opt(hasXmp, ilocItem(2, xmpOffset, Len(HEIC_XMP_PAYLOAD)))))
            \o opt(hasColr,
                 isoBox(BOX.iprp,
                        isoBox(BOX.ipco, isoBox(BOX.colr, <<112, 114, 111, 102, 1, 2>>)))))

\* ftyp, meta, and an mdat that holds the item payloads ahead of the picture
heicInput(brand, hasExif, hasGps, hasXmp, hasColr) ==
    LET ftyp    == isoBox(SIG_FTYP, brand \o <<0, 0, 0, 0>>)
        metaLen == Len(heicMeta(hasExif, hasGps, hasXmp, hasColr, 0, 0))
        exifOffset == Len(ftyp) + metaLen + 8
        xmpOffset  == exifOffset + (IF hasExif THEN Len(heicExifPayload(hasGps)) ELSE 0)
    IN  ftyp \o heicMeta(hasExif, hasGps, hasXmp, hasColr, exifOffset, xmpOffset)
          \o isoBox(BOX.mdat,
                    opt(hasExif, heicExifPayload(hasGps)) \o opt(hasXmp, HEIC_XMP_PAYLOAD)
                      \o <<200, 201, 202>>)

\* 'heic', 'avif'
HeicInputs ==
    {heicInput(brand, e, g, x, c) :
        brand \in {<<104, 101, 105, 99>>, <<97, 118, 105, 102>>},
        e \in BOOLEAN, g \in BOOLEAN, x \in BOOLEAN, c \in BOOLEAN}

\* --- MP4 and MOV ---

\* the movie header in version 0 (32-bit times) or 1 (64-bit times)
mvhdBox(version) ==
    isoBox(ATOM_MVHD,
           IF version = 0
           THEN <<0, 0, 0, 0, 1, 2, 3, 4, 5, 6, 7, 8, 0, 0, 3, 232>>
           ELSE <<1, 0, 0, 0, 0, 0, 0, 0, 1, 2, 3, 4, 0, 0, 0, 0, 5, 6, 7, 8,
                  0, 0, 3, 232>>)

\* ftyp, an optional top-level uuid box, moov with the movie header and a
\* udta of optional location and title atoms, mdat
mp4Input(brand, version, hasUuid, hasLocation, hasName) ==
    isoBox(SIG_FTYP, brand \o <<0, 0, 0, 0>>)
      \o opt(hasUuid, isoBox(<<117, 117, 105, 100>>, <<1, 2, 3, 4>>))
      \o isoBox(<<109, 111, 111, 118>>,
                mvhdBox(version)
                  \o opt(hasLocation \/ hasName,
                       isoBox(<<117, 100, 116, 97>>,
                              opt(hasLocation,
                                  isoBox(<<169, 120, 121, 122>>, <<43, 49, 43, 50, 47>>))
                                \o opt(hasName, isoBox(<<169, 110, 97, 109>>, <<65>>)))))
      \o isoBox(BOX.mdat, <<9, 9>>)

\* 'isom', 'qt  '
Mp4Inputs ==
    {mp4Input(brand, v, u, l, n) :
        brand \in {<<105, 115, 111, 109>>, <<113, 116, 32, 32>>},
        v \in {0, 1}, u \in BOOLEAN, l \in BOOLEAN, n \in BOOLEAN}

\* --- PDF ---

\* '%PDF-1.4\n'
PDF_HEADER == <<37, 80, 68, 70, 45, 49, 46, 52, 10>>

\* '1 0 obj\n<</Title(ab)/K<4f>>>\nendobj\n'
PDF_INFO_PLAIN ==
    <<49, 32, 48, 32, 111, 98, 106, 10, 60, 60, 47, 84, 105, 116, 108, 101, 40, 97,
      98, 41, 47, 75, 60, 52, 102, 62, 62, 62, 10, 101, 110, 100, 111, 98, 106, 10>>

\* '1 0 obj\n<</Title(a\)b)/K<4f>>>\nendobj\n'
PDF_INFO_ESCAPED ==
    <<49, 32, 48, 32, 111, 98, 106, 10, 60, 60, 47, 84, 105, 116, 108, 101, 40, 97,
      92, 41, 98, 41, 47, 75, 60, 52, 102, 62, 62, 62, 10, 101, 110, 100, 111, 98,
      106, 10>>

\* '2 0 obj\n<</Type/Metadata>>stream\nXY\nendstream\nendobj\n'
PDF_XMP_OBJECT ==
    <<50, 32, 48, 32, 111, 98, 106, 10, 60, 60, 47, 84, 121, 112, 101, 47, 77, 101,
      116, 97, 100, 97, 116, 97, 62, 62, 115, 116, 114, 101, 97, 109, 10, 88, 89, 10,
      101, 110, 100, 115, 116, 114, 101, 97, 109, 10, 101, 110, 100, 111, 98, 106, 10>>

\* '2 0 obj\n/Type/Metadata stream\nXY\nendstream\nendobj\n': the type key
\* follows the object header with nothing but white space in between
PDF_XMP_BARE ==
    <<50, 32, 48, 32, 111, 98, 106, 10, 47, 84, 121, 112, 101, 47, 77, 101, 116, 97,
      100, 97, 116, 97, 32, 115, 116, 114, 101, 97, 109, 10, 88, 89, 10, 101, 110,
      100, 115, 116, 114, 101, 97, 109, 10, 101, 110, 100, 111, 98, 106, 10>>

\* 'trailer\n<</Info 1 0 R>>\n%%EOF\n'
PDF_TRAILER_INFO ==
    <<116, 114, 97, 105, 108, 101, 114, 10, 60, 60, 47, 73, 110, 102, 111, 32, 49, 32,
      48, 32, 82, 62, 62, 10, 37, 37, 69, 79, 70, 10>>

\* 'trailer\n<</Root 2 0 R>>\n%%EOF\n'
PDF_TRAILER_PLAIN ==
    <<116, 114, 97, 105, 108, 101, 114, 10, 60, 60, 47, 82, 111, 111, 116, 32, 50, 32,
      48, 32, 82, 62, 62, 10, 37, 37, 69, 79, 70, 10>>

\* 'trailer\n<</Info 1 0 R/Encrypt 3 0 R>>\n'
PDF_TRAILER_ENCRYPTED ==
    <<116, 114, 97, 105, 108, 101, 114, 10, 60, 60, 47, 73, 110, 102, 111, 32, 49, 32,
      48, 32, 82, 47, 69, 110, 99, 114, 121, 112, 116, 32, 51, 32, 48, 32, 82, 62, 62,
      10>>

\* header, an optional Info object, an optional XMP metadata stream, trailer
PdfInputs ==
    {PDF_HEADER \o info \o xmp \o trailer :
        info \in {<<>>, PDF_INFO_PLAIN, PDF_INFO_ESCAPED},
        xmp \in {<<>>, PDF_XMP_OBJECT, PDF_XMP_BARE},
        trailer \in {PDF_TRAILER_INFO, PDF_TRAILER_PLAIN, PDF_TRAILER_ENCRYPTED}}

\* An Info object, white space as long as the window in which the handler
\* looks for the encryption reference, and the trailer that holds it.
lateEncryptPdf ==
    PDF_HEADER \o PDF_INFO_PLAIN \o [i \in 1..HEADER_WINDOW |-> 32]
      \o PDF_TRAILER_ENCRYPTED

\* --- files that carry a position or a sub-IFD ---

\* A little-endian TIFF whose IFD0 holds ImageWidth and a pointer entry
\* (`tag`, LONG, count 1) to a sub-IFD of one ASCII entry, DateTimeOriginal,
\* with its text '2020' stored out of line behind the sub-IFD.
subIfdTiff(tag) ==
    SIG_TIFF_LE \o writeUint32LE(8) \o writeUint16LE(2)
      \o ifdEntryLE(256, 3, 1, <<2, 0, 0, 0>>)
      \o ifdEntryLE(tag, 4, 1, writeUint32LE(38))
      \o writeUint32LE(0)
      \o writeUint16LE(1)
      \o ifdEntryLE(36867, 2, 6, writeUint32LE(56))
      \o writeUint32LE(0)
      \o <<50, 48, 50, 48, 0, 0>>

\* TIFF files with a GPS IFD or an EXIF IFD behind IFD0
SubIfdTiffs ==
    {exifBlock(o, fix) : o \in {NoOrientation, 6}, fix \in {FixLondon, FixEquator}}
      \cup {subIfdTiff(34665), subIfdTiff(34853)}

\* PNG files whose eXIf chunk holds a position (the CRC field of that chunk
\* is left zero: png.parseChunks reads it and never compares it)
GpsPngs ==
    {SIG_PNG \o pngChunk(T_IHDR, <<0, 0, 0, 1, 0, 0, 0, 1, 8, 0, 0, 0, 0>>, TRUE)
        \o pngChunk(T_eXIf, exifBlock(o, fix), FALSE)
        \o pngChunk(T_IDAT, <<120, 1>>, TRUE) \o pngChunk(T_IEND, <<>>, TRUE) :
        o \in {NoOrientation, 6}, fix \in {FixLondon, FixEquator}}

\* JPEG files whose EXIF segment holds a position
GpsJpegs ==
    {JPEG_SOI \o exifSegment(o, fix) \o jpegSegment(218, <<1, 0>>) \o <<18, 52, 255, 217>> :
        o \in {NoOrientation, 6}, fix \in {FixLondon, FixEquator}}

GpsInputs == SubIfdTiffs \cup GpsPngs \cup GpsJpegs

\* --- corrupt and adversarial files ---

\* 'free'
ATOM_FREE == <<102, 114, 101, 101>>

\* a box whose 32-bit size is 1 and whose 64-bit size is 0
zeroSizeBox(type) == <<0, 0, 0, 1>> \o type \o <<0, 0, 0, 0, 0, 0, 0, 0>>

\* ftyp, a box of 64-bit size 0, mdat
zeroBoxFile(brand) ==
    isoBox(SIG_FTYP, brand \o <<0, 0, 0, 0>>) \o zeroSizeBox(ATOM_FREE)
      \o isoBox(BOX.mdat, <<200, 201>>)

\* ftyp, a meta box whose item information box holds an entry of 64-bit
\* size 0, mdat
zeroInfeFile(brand) ==
    isoBox(SIG_FTYP, brand \o <<0, 0, 0, 0>>)
      \o isoBox(BOX.meta,
                <<0, 0, 0, 0>>
                  \o isoBox(BOX.iinf, <<0, 0, 0, 0, 0, 1>> \o zeroSizeBox(BOX.infe)))
      \o isoBox(BOX.mdat, <<200, 201>>)

RECURSIVE nestedAtoms(_)
\* n 'udta' containers inside one another around a location atom
nestedAtoms(n) ==
    IF n = 0 THEN isoBox(<<169, 120, 121, 122>>, <<43, 49>>)
    ELSE isoBox(<<117, 100, 116, 97>>, nestedAtoms(n - 1))

\* deeper than the walker descends
NestingDepth == 12

\* ftyp, a moov whose udta holds a location atom that declares 8 bytes more
\* than udta has room for, mdat
overrunAtomFile ==
    isoBox(SIG_FTYP, <<105, 115, 111, 109, 0, 0, 0, 0>>)
      \o isoBox(<<109, 111, 111, 118>>,
                mvhdBox(0)
                  \o isoBox(<<117, 100, 116, 97>>,
                            writeUint32BE(8 + 5 + 8) \o <<169, 120, 121, 122>>
                              \o <<43, 49, 43, 50, 47>>))
      \o isoBox(BOX.mdat, <<9, 9>>)

\* a little-endian TIFF whose IFD0 announces `count` entries, holds one, and
\* names `next` as the offset of the following IFD
tiffWithCount(count, next) ==
    <<73, 73, 42, 0, 8, 0, 0, 0>> \o writeUint16(count, TRUE)
      \o tiffEntry(270, 2, 2, <<65, 0, 0, 0>>, TRUE) \o writeUint32(next, TRUE)

\* 'heic', 'avif', 'isom'
\* ftyp, a moov with the movie header, and an mdat that declares 1000 bytes
\* where the file has 10 left
cutAtomFile ==
    isoBox(SIG_FTYP, <<105, 115, 111, 109, 0, 0, 0, 0>>)
      \o isoBox(<<109, 111, 111, 118>>, mvhdBox(0))
      \o writeUint32BE(1000) \o BOX.mdat \o <<9, 9>>

HostileInputs ==
    {zeroBoxFile(brand) : brand \in {<<104, 101, 105, 99>>, <<97, 118, 105, 102>>,
                                      <<105, 115, 111, 109>>}}
      \cup {zeroInfeFile(brand) : brand \in {<<104, 101, 105, 99>>, <<97, 118, 105, 102>>}}
      \cup {isoBox(SIG_FTYP, <<105, 115, 111, 109, 0, 0, 0, 0>>)
              \o nestedAtoms(NestingDepth),
            overrunAtomFile, cutAtomFile}
      \cup {tiffWithCount(1, 8), tiffWithCount(1, 0), tiffWithCount(65535, 0)}

\* ------------------------------------------------------------------------
\* The state machine: strip an input, then strip the output again
\* ------------------------------------------------------------------------

NoResult == Failure("unknown", "none")

NoReport == Inspection("unknown", FALSE, "none", {})

\* A path: a directory, the base name without extension, given as a stem
\* and the number of '-clean' suffixes appended to it, and the extension.
FilePath(dir, stem, clean, ext) ==
    [dir |-> dir, stem |-> stem, clean |-> clean, ext |-> ext]

\* no options.outputPath
NoPath == FilePath("", "", 0, "")

\* no file on disk
EmptyDisk == <<>>

\* ProcessFileOptions / BatchOptions as `{}`: output next to the input with
\* the suffix '-clean', nothing skipped, four files at a time
DefaultNodeOptions ==
    [inPlace |-> FALSE, outputDir |-> "", outputPath |-> NoPath, skipExisting |-> FALSE,
     concurrency |-> DefaultConcurrency]

\* a scrub stream nothing was written to
IdleStream == [arriving |-> <<>>, chunks |-> <<>>, pushed |-> <<>>, state |-> "open"]

\* the Node layer at rest
NodeIdle ==
    /\ disk = EmptyDisk
    /\ nodeOptions = DefaultNodeOptions
    /\ queue = <<>>
    /\ workers = <<>>
    /\ scrub = IdleStream
    /\ timers = {}

\* the caller of the core API before its first call
CoreIdle ==
    /\ pc = "start"
    /\ result = NoResult
    /\ result2 = NoResult
    /\ report = NoReport

InitWith(inputs) ==
    /\ input \in inputs
    /\ options \in Policies
    /\ CoreIdle
    /\ NodeIdle

\* the call has come back, with a value or with a thrown error
returned(outcome) == outcome.error # "NeverReturns"

\* where the caller is after a call: past it, or inside it for ever
after(outcome, past, inside) == IF returned(outcome) THEN past ELSE inside

\* removeMetadataSync(input, options)
Strip ==
    /\ pc = "start"
    /\ LET yields(outcome) ==
               result' = outcome /\ pc' = after(outcome, "stripped", "stripping")
       IN  yields(processRemoval(input, options))
    /\ UNCHANGED <<input, options, result2, report, nodeVars>>

\* removeMetadataSync(result.data, options)
StripAgain ==
    /\ pc = "stripped"
    /\ result.ok
    /\ LET yields(outcome) ==
               result2' = outcome /\ pc' = after(outcome, "restripped", "restripping")
       IN  yields(processRemoval(result.data, options))
    /\ UNCHANGED <<input, options, result, report, nodeVars>>

\* getMetadataTypes(input)
Inspect ==
    /\ pc = "start"
    /\ LET yields(outcome) ==
               report' = outcome /\ pc' = after(outcome, "inspected", "inspecting")
       IN  yields(getMetadataTypes(input))
    /\ UNCHANGED <<input, options, result, result2, nodeVars>>

\* verifyCleanSync(result.data)
Verify ==
    /\ pc = "stripped"
    /\ result.ok
    /\ LET yields(outcome) ==
               report' = outcome /\ pc' = after(outcome, "verified", "verifying")
       IN  yields(verifyCleanSync(result.data))
    /\ UNCHANGED <<input, options, result, result2, nodeVars>>

Next == Strip \/ StripAgain \/ Inspect \/ Verify

\* ------------------------------------------------------------------------
\* node.ts: processFile
\* ------------------------------------------------------------------------

\* longest chain of '-clean' suffixes told apart; a longer name stands for
\* all longer names
MaxClean == 2

\* `${name}${suffix}`, with the default suffix '-clean'
withSuffix(path) == [path EXCEPT !.clean = Min(@ + 1, MaxClean)]

exists(files, path) == path \in DOMAIN files

\* writeFile(path, data)
writeFile(files, path, data) ==
    [q \in DOMAIN files \cup {path} |-> IF q = path THEN data ELSE files[q]]

\* the output path of processFile (no input of the model is a RAW file, so
\* result.outputFormat is never set and the extension is kept)
fileOutputPath(absInput, nopts) ==
    IF nopts.outputPath # NoPath THEN nopts.outputPath
    ELSE IF nopts.inPlace THEN absInput
    ELSE withSuffix(absInput)

\* removeMetadataSync as processFile calls it: on the bytes alone, so that
\* options takes its default value {}
strippedByProcessFile(fileData, opts) == processRemoval(fileData, DefaultOptions)

\* processFile(inputPath, options): the result it resolves with (ok = FALSE
\* when it rejects) and the disk it leaves
processFile(files, inputPath, opts, nopts) ==
    LET written(res) ==
            IF ~res.ok THEN [result |-> res, disk |-> files]
            ELSE [result |-> res,
                  disk |-> writeFile(files, fileOutputPath(inputPath, nopts), res.data)]
    IN  IF ~exists(files, inputPath)
        THEN [result |-> Failure("unknown", "ENOENT"), disk |-> files]
        ELSE written(strippedByProcessFile(files[inputPath], opts))

\* the file the caller of processFile passes
InputPath == FilePath("in", "photo", 0, "img")

\* await processFile(InputPath, {...options, ...nodeOptions})
ProcessFile ==
    /\ pc = "start"
    /\ LET yields(outcome) ==
               /\ result' = outcome.result
               /\ disk' = outcome.disk
               /\ pc' = IF outcome.result.ok THEN "processed" ELSE "rejected"
       IN  yields(processFile(disk, InputPath, options, nodeOptions))
    /\ UNCHANGED <<input, options, result2, report, nodeOptions, queue, workers,
                   scrub, timers>>

NextFile == ProcessFile

\* ------------------------------------------------------------------------
\* batch: processFiles, runConcurrent, processSingleFile
\* ------------------------------------------------------------------------

\* computeOutputPath (outputFormat is never set, see fileOutputPath)
computeOutputPath(inputPath, nopts) ==
    IF nopts.inPlace THEN inputPath
    ELSE withSuffix([inputPath EXCEPT
                        !.dir = IF nopts.outputDir # "" THEN nopts.outputDir ELSE @])

\* Math.max(1, options.concurrency ?? 4)
effectiveConcurrency(nopts) == Max(1, nopts.concurrency)

\* One worker per file, whatever the limit.  Not the program's: C24 must
\* fail against it.
workerPerItem(items, concurrency) == 1..Len(items)

\* Array.from({ length: concurrency }, worker): the workers of runConcurrent
workersOf(items, concurrency) == 1..concurrency

\* A worker of runConcurrent: where it waits, the file it holds, and what
\* it will write where.  "idle" is the loop test, "exited" the end of the
\* loop; the other steps are the awaits of processSingleFile.
Worker(step, item, out, data) ==
    [step |-> step, item |-> item, out |-> out, data |-> data]

IdleWorker == Worker("idle", NoPath, NoPath, <<>>)

ExitedWorker == Worker("exited", NoPath, NoPath, <<>>)

\* queue.shift() and the call of processSingleFile up to `await readFile`
taken(item) == Worker("reading", item, NoPath, <<>>)

\* processFiles(filePaths, options) up to the first await: every worker
\* runs until it waits, the first ones each on a file of its own, the
\* others leave their loop at once
ProcessFiles(filePaths) ==
    /\ pc = "start"
    /\ LET started(ids) ==
               /\ workers' = [w \in ids |-> IF w <= Len(filePaths)
                                             THEN taken(filePaths[w]) ELSE ExitedWorker]
               /\ queue' = SubSeq(filePaths, Min(Cardinality(ids), Len(filePaths)) + 1,
                                  Len(filePaths))
       IN  started(workersOf(filePaths, effectiveConcurrency(nodeOptions)))
    /\ pc' = "batch"
    /\ UNCHANGED <<input, options, result, result2, report, disk, nodeOptions,
                   scrub, timers>>

\* worker w moves on
moves(w, next) == workers' = [workers EXCEPT ![w] = next]

\* readFile settles: the file is stripped and the output path computed;
\* an error of either ends the file
ReadDone(w) ==
    /\ pc = "batch" /\ w \in DOMAIN workers /\ workers[w].step = "reading"
    /\ LET item == workers[w].item
           held(res) ==
               IF ~res.ok THEN IdleWorker
               ELSE Worker(IF nodeOptions.skipExisting THEN "statting" ELSE "mkdir",
                           item, computeOutputPath(item, nodeOptions), res.data)
       IN  IF ~exists(disk, item) THEN moves(w, IdleWorker)
           ELSE moves(w, held(processRemoval(disk[item], options)))
    /\ UNCHANGED <<coreVars, disk, nodeOptions, queue, scrub, timers>>

\* stat(outputPath) settles: the file is skipped when the output exists
StatDone(w) ==
    /\ pc = "batch" /\ w \in DOMAIN workers /\ workers[w].step = "statting"
    /\ IF exists(disk, workers[w].out) THEN moves(w, IdleWorker)
       ELSE moves(w, [workers[w] EXCEPT !.step = "mkdir"])
    /\ UNCHANGED <<coreVars, disk, nodeOptions, queue, scrub, timers>>

\* mkdir settles
MkdirDone(w) ==
    /\ pc = "batch" /\ w \in DOMAIN workers /\ workers[w].step = "mkdir"
    /\ moves(w, [workers[w] EXCEPT !.step = "writing"])
    /\ UNCHANGED <<coreVars, disk, nodeOptions, queue, scrub, timers>>

\* writeFile(outputPath, result.data) settles
WriteDone(w) ==
    /\ pc = "batch" /\ w \in DOMAIN workers /\ workers[w].step = "writing"
    /\ disk' = writeFile(disk, workers[w].out, workers[w].data)
    /\ moves(w, IdleWorker)
    /\ UNCHANGED <<coreVars, nodeOptions, queue, scrub, timers>>

\* the loop test of a worker: the next file, or the end of the loop
TakeNext(w) ==
    /\ pc = "batch" /\ w \in DOMAIN workers /\ workers[w].step = "idle"
    /\ IF queue = <<>>
       THEN moves(w, ExitedWorker) /\ UNCHANGED queue
       ELSE moves(w, taken(Head(queue))) /\ queue' = Tail(queue)
    /\ UNCHANGED <<coreVars, disk, nodeOptions, scrub, timers>>

\* Promise.all settles and processFiles returns its report
BatchDone ==
    /\ pc = "batch"
    /\ \A w \in DOMAIN workers : workers[w].step = "exited"
    /\ pc' = "batchDone"
    /\ UNCHANGED <<input, options, result, result2, report, nodeVars>>

\* the files handed to processFiles: two of the same name in two
\* directories, and a third
BatchFiles ==
    <<FilePath("a", "x", 0, "img"), FilePath("b", "x", 0, "img"),
      FilePath("a", "y", 0, "img")>>

NextBatch ==
    \/ ProcessFiles(BatchFiles)
    \/ \E w \in 1..Len(BatchFiles) :
          ReadDone(w) \/ StatDone(w) \/ MkdirDone(w) \/ WriteDone(w) \/ TakeNext(w)
    \/ BatchDone

\* ---------------------------------------------------------------------
\* node-stream.ts: ScrubTransform.  scrub.arriving holds the chunks the
\* upstream has not written yet, scrub.chunks is _chunks, scrub.pushed the
\* buffers handed downstream, scrub.state the fate of the stream.

\* a transform that hands every chunk on as it arrives
passThrough(stream, chunk) == [stream EXCEPT !.pushed = Append(@, chunk)]

\* _transform: the chunk is kept and the callback called, nothing is pushed
transform(stream, chunk) == [stream EXCEPT !.chunks = Append(@, chunk)]

\* _flush: the chunks are joined and stripped under the stream's options;
\* the result is pushed, or the error handed to the callback; _chunks is
\* emptied on the way out.  A strip that never returns leaves the stream
\* inside _flush.
flush(stream, opts) ==
    LET removed == processRemoval(concat(stream.chunks), opts)
    IN  IF removed.ok
        THEN [stream EXCEPT !.pushed = Append(@, removed.data), !.chunks = <<>>,
                            !.state = "ended"]
        ELSE IF removed.error = "NeverReturns"
        THEN [stream EXCEPT !.state = "flushing"]
        ELSE [stream EXCEPT !.chunks = <<>>, !.state = "errored"]

\* the upstream writes its next chunk
Transform ==
    /\ scrub.state = "open" /\ scrub.arriving # <<>>
    /\ scrub' = transform([scrub EXCEPT !.arriving = Tail(@)], Head(scrub.arriving))
    /\ UNCHANGED <<coreVars, disk, nodeOptions, queue, workers, timers>>

\* the upstream has ended
Flush ==
    /\ scrub.state = "open" /\ scrub.arriving = <<>>
    /\ scrub' = flush(scrub, options)
    /\ UNCHANGED <<coreVars, disk, nodeOptions, queue, workers, timers>>

NextStream == Transform \/ Flush

\* the places a file is cut at to make chunks
cuts(data) == {1, Len(data) \div 2, Len(data) - 1} \cap (1..(Len(data) - 1))

\* a file as one chunk, as two and as three, and with an empty chunk
chunkings(data) ==
    {<<data>>, <<data, <<>>>>}
      \cup {<<slice(data, 0, c), slice(data, c, Len(data))>> : c \in cuts(data)}
      \cup {<<slice(data, 0, c[1]), slice(data, c[1], c[2]), slice(data, c[2], Len(data))>> :
               c \in {d \in cuts(data) \X cuts(data) : d[1] < d[2]}}

\* no bytes at all, and bytes of no known format
EmptyInput == <<>>
UnknownInput == <<1, 2, 3, 4>>

StreamInputs == GpsJpegs \cup GpsPngs \cup OddGifInputs \cup {UnknownInput}

\* a stream with a policy, and a file about to be piped into it in chunks;
\* or an upstream that ends without writing
InitStream ==
    /\ input \in StreamInputs \cup {EmptyInput}
    /\ options \in Policies
    /\ CoreIdle
    /\ disk = EmptyDisk /\ nodeOptions = DefaultNodeOptions
    /\ queue = <<>> /\ workers = <<>> /\ timers = {}
    /\ \E arriving \in (IF input = EmptyInput THEN {<<>>} ELSE chunkings(input)) :
          scrub = [IdleStream EXCEPT !.arriving = arriving]

SpecStream == InitStream /\ [][NextStream]_vars

\* ---------------------------------------------------------------------
\* cli: startWatch.  timers holds the paths a setTimeout callback is pending
\* for, workers the callbacks that have started and wait for their file
\* operations.  The watcher is recursive and every write of a file below
\* the watched directory raises an event for it.

\* the listener of watch(): a callback for the file is set to run in 200 ms
watchEvent(pending, path) == pending \cup {path}

\* a file is put into the watched directory from outside
FileArrives ==
    /\ pc = "start"
    /\ pc' = "watching"
    /\ disk' = writeFile(disk, InputPath, input)
    /\ timers' = watchEvent(timers, InputPath)
    /\ UNCHANGED <<input, options, result, result2, report, nodeOptions, queue,
                   workers, scrub>>

\* the 200 ms are over: the callback of setTimeout starts and waits for stat
TimerFires(path) ==
    /\ pc = "watching" /\ path \in timers
    /\ timers' = timers \ {path}
    /\ workers' = Append(workers, Worker("processing", path, NoPath, <<>>))
    /\ UNCHANGED <<coreVars, disk, nodeOptions, queue, scrub>>

\* the rest of the callback: stat, then processFile(fullPath, batchOpts); a
\* rejection is swallowed.  The file processFile writes lies in the watched
\* directory and raises the next event.
CallbackDone(w) ==
    /\ pc = "watching" /\ w \in DOMAIN workers
    /\ LET yields(outcome) ==
               /\ disk' = outcome.disk
               /\ timers' = IF outcome.result.ok
                            THEN watchEvent(timers,
                                            fileOutputPath(workers[w].item, nodeOptions))
                            ELSE timers
       IN  yields(processFile(disk, workers[w].item, options, nodeOptions))
    /\ workers' = SubSeq(workers, 1, w - 1) \o SubSeq(workers, w + 1, Len(workers))
    /\ UNCHANGED <<coreVars, nodeOptions, queue, scrub>>

NextWatch ==
    \/ FileArrives
    \/ \E path \in timers : TimerFires(path)
    \/ \E w \in DOMAIN workers : CallbackDone(w)

\* the options the command line hands to startWatch: with and without
\* --in-place
WatchTargets == {DefaultNodeOptions, [DefaultNodeOptions EXCEPT !.inPlace = TRUE]}

\* an empty watched directory, and the file that is about to arrive
InitWatch ==
    /\ input \in GifInputs \cup GpsJpegs \cup GpsPngs \cup {UnknownInput}
    /\ options = DefaultOptions
    /\ CoreIdle
    /\ disk = EmptyDisk
    /\ nodeOptions \in WatchTargets
    /\ queue = <<>> /\ workers = <<>> /\ scrub = IdleStream /\ timers = {}

\* Weak fairness of CallbackDone: a callback that has started comes to its
\* end.  CallbackDone(w) is enabled, and changes workers, exactly when w is
\* a callback that has started, which is what the first disjunct says.
callbacksEnd ==
    \/ []<>(workers = <<>>)
    \/ []<><<\E w \in DOMAIN workers : CallbackDone(w)>>_vars

\* the file arrives, and the event loop runs every callback that is due
SpecWatch ==
    /\ InitWatch /\ [][NextWatch]_vars
    /\ WF_vars(FileArrives \/ \E path \in timers : TimerFires(path))
    /\ callbacksEnd

InitJpeg == InitWith(JpegInputs)

SpecJpeg == InitJpeg /\ [][Next]_vars

InitPng == InitWith(PngInputs)

SpecPng == InitPng /\ [][Next]_vars

InitTiff == InitWith(TiffInputs)

SpecTiff == InitTiff /\ [][Next]_vars

\* the formats whose handlers rebuild the file from the parts they keep
RebuiltInputs == JpegInputs \cup PngInputs \cup WebpInputs \cup GifInputs

InitRebuilt == InitWith(RebuiltInputs)

SpecRebuilt == InitRebuilt /\ [][Next]_vars

\* the formats whose handlers overwrite a copy of the file in place
InPlaceInputs == TiffInputs \cup HeicInputs \cup Mp4Inputs \cup PdfInputs

InitInPlace == InitWith(InPlaceInputs)

SpecInPlace == InitInPlace /\ [][Next]_vars

InitGif == InitWith(GifInputs \cup OddGifInputs)

SpecGif == InitGif /\ [][Next]_vars

\* WebP files: lossy, lossless and animated
InitWebp == InitWith(WebpInputs \cup LosslessWebps \cup AnimatedWebps)

SpecWebp == InitWebp /\ [][Next]_vars

InitPdf == InitWith(PdfInputs \cup {lateEncryptPdf})

SpecPdf == InitPdf /\ [][Next]_vars

\* the ways processFile is told where to write
FileTargets ==
    {DefaultNodeOptions,
     [DefaultNodeOptions EXCEPT !.inPlace = TRUE],
     [DefaultNodeOptions EXCEPT !.outputPath = FilePath("out", "result", 0, "img")]}

\* one file on disk, a policy, and a target
InitFile ==
    /\ input \in GpsJpegs \cup GpsPngs \cup OddGifInputs
    /\ options \in Policies
    /\ CoreIdle
    /\ disk = writeFile(EmptyDisk, InputPath, input)
    /\ nodeOptions \in FileTargets
    /\ queue = <<>>
    /\ workers = <<>>
    /\ scrub = IdleStream
    /\ timers = {}

SpecFile == InitFile /\ [][NextFile]_vars

\* largest options.concurrency tried besides the default
MaxConcurrency == 2

\* the batch options tried: every target, with and without skipExisting,
\* each limit
BatchTargets ==
    {[DefaultNodeOptions EXCEPT !.inPlace = i, !.outputDir = d, !.skipExisting = s,
                                !.concurrency = c] :
        i \in BOOLEAN, d \in {"", "out"}, s \in BOOLEAN,
        c \in (1..MaxConcurrency) \cup {DefaultConcurrency}}

\* a file that is on disk before the batch starts, at the place where the
\* output of the first file goes when outputDir is 'out'
EarlierOutput == FilePath("out", "x", 1, "img")

\* three files to process, a JPEG and two GIFs, with or without an earlier
\* output
InitBatch ==
    /\ input \in GpsJpegs
    /\ options = DefaultOptions
    /\ CoreIdle
    /\ \E earlier \in BOOLEAN :
          LET given == writeFile(writeFile(writeFile(EmptyDisk, BatchFiles[1], input),
                                           BatchFiles[2],
                                           gifInput(FALSE, TRUE, FALSE, FALSE, FALSE, TRUE)),
                                 BatchFiles[3],
                                 gifInput(FALSE, FALSE, TRUE, FALSE, FALSE, TRUE))
          IN  disk = IF earlier THEN writeFile(given, EarlierOutput, <<1, 2, 3>>)
                     ELSE given
    /\ nodeOptions \in BatchTargets
    /\ queue = <<>>
    /\ workers = <<>>
    /\ scrub = IdleStream
    /\ timers = {}

SpecBatch == InitBatch /\ [][NextBatch]_vars

InitGps == InitWith(GpsInputs)

SpecGps == InitGps /\ [][Next]_vars

\* corrupt files next to well-formed ones of the same containers
InitHostile == InitWith(HostileInputs \cup HeicInputs)

\* A call that can be made is made, and runs.
SpecHostile == InitHostile /\ [][Next]_vars /\ WF_vars(Next)

Init == InitWith(RebuiltInputs \cup InPlaceInputs)

Spec == Init /\ [][Next]_vars

\* ------------------------------------------------------------------------
\* Properties
\* ------------------------------------------------------------------------

\* the options the handlers see
merged == applyFieldOptions(options)

\* The strip under examination in the current state: its input, its result.
\* In "stripped" it is the first strip, in "restripped" the second.
lastInput == IF pc = "restripped" THEN result.data ELSE input

lastResult == IF pc = "restripped" THEN result2 ELSE result

stripDone == pc # "start" /\ lastResult.ok

\* the position the code's own reader decodes from a file
decodedGps(data) ==
    CASE detectFormat(data) = "jpeg" -> jpegGpsScan(data, 2, NoGps)
      [] detectFormat(data) = "png" ->
            LET chunks == pngParseChunks(data).chunks
                idx    == FirstIndex({i \in 1..Len(chunks) : chunks[i].type = T_eXIf})
            IN  IF idx = 0 THEN NoGps ELSE readExifBlock(chunks[idx].data)
      [] OTHER -> readExifBlock(data)

\* the metadata kinds a file of the given format carries
metadataTypes(format, data) == handlerGetMetadataTypes(format, data)

\* --- C10 ---

RECURSIVE referenceCrc(_, _, _)
\* CRC-32 (reflected polynomial 0xEDB88320) computed bit by bit, without
\* the lookup table: a register, one byte folded in at a time
referenceCrc(reg, bytes, from) ==
    IF from > Len(bytes) THEN reg
    ELSE LET next == CrcRounds(XorWord(reg, <<0, 0, 0, bytes[from]>>), 8)
         IN  IF Len(next) = 4 THEN referenceCrc(next, bytes, from + 1) ELSE next

crc32Reference(bytes) == XorWord(referenceCrc(AllOnes, bytes, 1), AllOnes)

\* the chunks of the input that png.remove keeps, in the strip under
\* examination
pngKeptChunks ==
    SelectSeq(pngParseChunks(lastInput).chunks, LAMBDA c : pngKeepChunk(c, merged))

\* the chunks of the file that strip returned
pngOutputChunks == pngParseChunks(lastResult.data)

\* an output chunk that carries the type and the data of a kept input chunk
keptFromInput(c) ==
    \E k \in 1..Len(pngKeptChunks) :
        pngKeptChunks[k].type = c.type /\ pngKeptChunks[k].data = c.data

\* C10: the PNG that strip returns parses, every chunk the remover kept from
\* the input is present in it, and the CRC recorded in the output for each
\* such chunk is the CRC-32 of its type bytes followed by its data bytes.
C10_PngCrcCorrect ==
    (stripDone /\ lastResult.format = "png") =>
        /\ pngOutputChunks.ok
        /\ \A k \in 1..Len(pngKeptChunks) :
              \E i \in 1..Len(pngOutputChunks.chunks) :
                  /\ pngOutputChunks.chunks[i].type = pngKeptChunks[k].type
                  /\ pngOutputChunks.chunks[i].data = pngKeptChunks[k].data
        /\ \A i \in 1..Len(pngOutputChunks.chunks) :
              LET c == pngOutputChunks.chunks[i]
              IN  keptFromInput(c) => c.crc = crc32Reference(c.type \o c.data)

\* a PNG whose chunks carried wrong CRC words went through strip, and a kept
\* private chunk now records a recomputed word
C10_Witness ==
    /\ pc = "stripped" /\ result.ok /\ result.format = "png"
    /\ \E k \in 1..Len(pngKeptChunks) :
          /\ pngKeptChunks[k].type = T_prVt
          /\ pngKeptChunks[k].crc = <<0, 0, 0, 0>>
    /\ \E i \in 1..Len(pngOutputChunks.chunks) :
          /\ pngOutputChunks.chunks[i].type = T_prVt
          /\ pngOutputChunks.chunks[i].crc # <<0, 0, 0, 0>>

\* --- C6 ---

\* PRECISION_DECIMALS of exif/gps.ts
precisionDecimals(p) ==
    CASE p = "city" -> 2 [] p = "region" -> 1 [] p = "country" -> 0

RECURSIVE Pow10(_)
Pow10(k) == IF k = 0 THEN 1 ELSE 10 * Pow10(k - 1)

\* a magnitude in millionths of a degree, truncated toward zero to k decimals
truncateMicro(micro, k) == (micro \div Pow10(6 - k)) * Pow10(6 - k)

\* C6 as stated: under city / region / country the coordinate re-injected
\* into the output decodes to the source coordinate truncated toward zero to
\* 2 / 1 / 0 decimal places.
C6_GpsTruncatedToPrecision ==
    (pc = "stripped" /\ result.ok /\ result.format = "jpeg"
        /\ options.gpsRedact \in {"city", "region", "country"}
        /\ decodedGps(input).present) =>
        LET src == decodedGps(input)
            out == decodedGps(result.data)
            k   == precisionDecimals(options.gpsRedact)
        IN  /\ out.present
            /\ out.latitude.micro = truncateMicro(src.latitude.micro, k)
            /\ out.longitude.micro = truncateMicro(src.longitude.micro, k)

\* --- C7 ---

\* C7 as stated: with remove = ["GPS"] and keep = ["GPS"], an input that
\* carries a position yields an output that carries it.
C7_KeepBeatsRemove ==
    (pc = "stripped" /\ result.ok
        /\ options.remove = {"GPS"} /\ options.keep = {"GPS"}
        /\ decodedGps(input).present) =>
        decodedGps(result.data).present

\* --- C8 ---

\* C8 as stated: with remove = ["GPS"] and no allowlist, every other kind of
\* metadata the input carries is still carried by the output, and no
\* position is.
C8_RemoveOnlyGps ==
    (pc = "stripped" /\ result.ok
        /\ options.remove = {"GPS"} /\ options.keep = {}) =>
        /\ (metadataTypes(result.format, input) \ {"EXIF"})
              \subseteq metadataTypes(result.format, result.data)
        /\ ~decodedGps(result.data).present

\* --- C9 ---

\* C9 as stated: a field named in remove and not in keep is stripped even
\* when its legacy preserve flag is true (here the ICC profile).
C9_RemoveBeatsLegacyFlag ==
    (pc = "stripped" /\ result.ok
        /\ "ICC Profile" \in options.remove /\ "ICC Profile" \notin options.keep
        /\ options.preserveColorProfile) =>
        "ICC Profile" \notin metadataTypes(result.format, result.data)

\* --- C1 ---

\* C1 as stated: stripping the output of a strip under the same policy
\* succeeds and returns the same bytes.
C1_Idempotent ==
    (pc = "restripped") => (result2.ok /\ result2.data = result.data)

\* --- C3 ---

InPlaceFormats == {"tiff", "heic", "avif", "mp4", "mov", "pdf"}

\* C3: a strip of a TIFF, HEIC, AVIF, MP4, MOV or PDF input that succeeds,
\* under any policy, returns exactly as many bytes as it was given.
C3_InPlaceLengthKept ==
    (stripDone /\ lastResult.format \in InPlaceFormats) =>
        Len(lastResult.data) = Len(lastInput)

\* a HEIC or AVIF file went through strip, bytes of it were overwritten, and
\* the output is as long as the input
C3_Witness ==
    /\ pc = "stripped" /\ result.ok /\ result.format \in {"heic", "avif"}
    /\ result.data # input
    /\ Len(result.data) = Len(input)

\* --- C4 ---

RebuiltFormats == {"jpeg", "png", "webp", "gif"}

\* the policy asks for nothing to be written into the output
noReinjection ==
    /\ ~merged.inject.present
    /\ ~wantsGpsRedact(merged)
    /\ ~merged.preserveOrientation

\* C4 as stated: without re-injection the output of a JPEG, PNG, WebP or GIF
\* strip is never longer than its input.
C4_NeverLonger ==
    (stripDone /\ lastResult.format \in RebuiltFormats /\ noReinjection) =>
        Len(lastResult.data) <= Len(lastInput)

\* the chunks of the WebP that is being stripped
webpInputChunks == webpParseChunks(lastInput).chunks

\* a chunk that stays in the output and makes it an extended-format file
webpKeepsExtendedChunk ==
    \E i \in 1..Len(webpInputChunks) :
        \/ webpInputChunks[i].fourcc \in {CHUNKS.ALPH, CHUNKS.ANIM}
        \/ webpInputChunks[i].fourcc = CHUNKS.ICCP /\ merged.preserveColorProfile

\* the input already carries an extended header of full size
webpHasFullVp8x ==
    \E i \in 1..Len(webpInputChunks) :
        webpInputChunks[i].fourcc = CHUNKS.VP8X /\ Len(webpInputChunks[i].data) >= 10

\* the bytes a WebP output may gain: a regenerated VP8X chunk (8 + 10) that
\* the input did not carry, and the pad byte the input left off at its end
webpGrowthAllowed ==
    (IF webpKeepsExtendedChunk /\ ~webpHasFullVp8x THEN 18 ELSE 0)
        + (Len(lastInput) % 2)

\* C4, amended: without re-injection the output of a JPEG, PNG or GIF strip is
\* never longer than its input; the output of a WebP strip exceeds its input
\* by at most the 18 bytes of a VP8X chunk that strip regenerates for a kept
\* ALPH, ANIM or ICCP chunk when the input carries no VP8X chunk of 10 data
\* bytes, and by 1 pad byte when the input has odd length.
C4_NeverLongerButVp8x ==
    (stripDone /\ lastResult.format \in RebuiltFormats /\ noReinjection) =>
        IF lastResult.format = "webp"
        THEN Len(lastResult.data) <= Len(lastInput) + webpGrowthAllowed
        ELSE Len(lastResult.data) <= Len(lastInput)

\* a WebP without an extended header and with an alpha chunk went through
\* strip under a policy without re-injection, and came out longer
C4_Witness ==
    /\ pc = "stripped" /\ result.ok /\ result.format = "webp" /\ noReinjection
    /\ webpKeepsExtendedChunk /\ ~webpHasFullVp8x
    /\ Len(result.data) > Len(input)
    /\ Len(result.data) <= Len(input) + 18

\* --- C5 ---

\* the index of the first IFD0 entry with the given tag, 0 when there is none
ifd0Index(data, tag) ==
    LET hdr  == tiffParseHeader(data)
        ifd0 == tiffParseIfd(data, hdr.ifdOffset, hdr.littleEndian)
    IN  FirstIndex({i \in 1..Len(ifd0.entries) : ifd0.entries[i].tag = tag})

ifd0Entry(data, tag) ==
    LET hdr == tiffParseHeader(data)
    IN  tiffParseIfd(data, hdr.ifdOffset, hdr.littleEndian).entries[ifd0Index(data, tag)]

\* the TIFF being stripped has one strip, named by StripOffsets (273) and
\* StripByteCounts (279), that lies inside the file
hasStrip(data) ==
    /\ ifd0Index(data, 273) # 0 /\ ifd0Index(data, 279) # 0
    /\ ifd0Entry(data, 273).count = 1 /\ ifd0Entry(data, 279).count = 1
    /\ ifd0Entry(data, 279).valueOffset > 0
    /\ ifd0Entry(data, 273).valueOffset + ifd0Entry(data, 279).valueOffset <= Len(data)

stripStart(data) == ifd0Entry(data, 273).valueOffset

stripEnd(data) == stripStart(data) + ifd0Entry(data, 279).valueOffset

\* strip left the strip bytes where they were and the pointer as it was
stripDataKept ==
    /\ stripEnd(lastInput) <= Len(lastResult.data)
    /\ \A i \in stripStart(lastInput)..(stripEnd(lastInput) - 1) :
          At(lastResult.data, i) = At(lastInput, i)
    /\ ifd0Index(lastResult.data, 273) # 0
    /\ stripStart(lastResult.data) = stripStart(lastInput)

disjoint(from1, to1, from2, to2) == to1 <= from2 \/ to2 <= from1

\* the strip data shares no byte with the IFD0 table, nor with the
\* out-of-line value of an IFD0 entry that the policy removes
stripDataApart(data) ==
    LET hdr  == tiffParseHeader(data)
        ifd0 == tiffParseIfd(data, hdr.ifdOffset, hdr.littleEndian)
    IN  /\ disjoint(stripStart(data), stripEnd(data),
                    hdr.ifdOffset, hdr.ifdOffset + 2 + Len(ifd0.entries) * 12 + 4)
        /\ \A k \in 1..Len(ifd0.entries) :
              LET e == ifd0.entries[k]
              IN  (~shouldKeepTag(e.tag, merged) /\ entrySize(e.type, e.count) > 4) =>
                      disjoint(stripStart(data), stripEnd(data),
                               e.valueOffset, e.valueOffset + entrySize(e.type, e.count))

C2_FormatPreserved ==
    (stripDone /\ lastResult.format # "raw") =>
        detectFormat(lastResult.data) = detectFormat(lastInput)

\* --- C13 ---

\* the offsets that lie in one of the locations
covered(locations) ==
    UNION {loc.offset..(loc.offset + loc.length - 1) : loc \in locations}

\* the offsets of the EXIF and XMP extents that heic.findMetadataLocations
\* finds in the file being stripped
metadataExtents ==
    covered(findMetadataLocations(lastInput).exif)
      \cup covered(findMetadataLocations(lastInput).xmp)

\* the offsets of the colour-profile boxes that strip clears as well
colourExtents ==
    IF merged.preserveColorProfile THEN {}
    ELSE covered(findColorProfileLocations(lastInput))

\* the offsets inside the top-level mdat boxes of the file being stripped
mdatOffsets ==
    LET boxes == parseBoxes(lastInput).boxes
    IN  UNION {boxes[k].offset..(boxes[k].offset + boxes[k].size - 1) :
                  k \in {j \in 1..Len(boxes) : boxes[j].type = BOX.mdat}}

\* the offsets at which the output differs from the input
changedOffsets ==
    {i \in 0..(Len(lastInput) - 1) : At(lastResult.data, i) # At(lastInput, i)}

heicStripped == stripDone /\ lastResult.format \in {"heic", "avif"}

\* C13 as stated: the strip of a HEIC or AVIF file changes bytes only inside
\* the located EXIF and XMP extents, which become zero, and changes no byte
\* inside an mdat box.
C13_MdatUntouched ==
    heicStripped =>
        /\ Len(lastResult.data) = Len(lastInput)
        /\ changedOffsets \subseteq metadataExtents
        /\ changedOffsets \cap mdatOffsets = {}
        /\ \A i \in metadataExtents : At(lastResult.data, i) = 0

\* C13, amended: the strip of a HEIC or AVIF file changes bytes only inside
\* the located EXIF and XMP extents, wherever the item location box places
\* them (inside mdat too), and, unless the colour profile is preserved,
\* inside the colr and iCCP property boxes; those bytes become zero, and
\* every other byte, in particular every byte of mdat outside a located
\* extent, is identical to the input.
C13_OnlyLocatedExtentsZeroed ==
    heicStripped =>
        /\ Len(lastResult.data) = Len(lastInput)
        /\ changedOffsets \subseteq metadataExtents \cup colourExtents
        /\ \A i \in metadataExtents \cup colourExtents : At(lastResult.data, i) = 0

\* a HEIC file whose EXIF item lies inside mdat went through strip: the item
\* was zeroed, and the picture bytes that follow it in mdat are as they were
C13_Witness ==
    /\ pc = "stripped" /\ heicStripped
    /\ metadataExtents # {} /\ metadataExtents \subseteq mdatOffsets
    /\ changedOffsets \cap mdatOffsets # {}
    /\ \E i \in mdatOffsets \ metadataExtents :
          At(input, i) = 200 /\ At(result.data, i) = 200

\* --- C12 ---

\* the sub-IFD that the IFD0 entry `tag` of a TIFF points to
subIfdOf(data, tag) ==
    tiffParseIfd(data, ifd0Entry(data, tag).valueOffset,
                 tiffParseHeader(data).littleEndian)

\* the offsets of the bytes of that sub-IFD: its entry table with the count
\* and the next-IFD pointer, and the values its entries store out of line
subIfdExtent(data, tag) ==
    LET from == ifd0Entry(data, tag).valueOffset
        sub  == subIfdOf(data, tag).entries
    IN  (from..(from + 2 + 12 * Len(sub) + 4 - 1)
          \cup UNION {sub[k].valueOffset..(sub[k].valueOffset + getValueSize(sub[k]) - 1) :
                        k \in {j \in 1..Len(sub) : ~isInlineValue(sub[j])}})
          \cap 0..(Len(data) - 1)

\* strip dropped the pointer entry `tag` from IFD0 of a TIFF
pointerDropped(tag) ==
    /\ stripDone /\ lastResult.format = "tiff"
    /\ ifd0Index(lastInput, tag) # 0 /\ subIfdOf(lastInput, tag).ok
    /\ ifd0Index(lastResult.data, tag) = 0

\* C12 as stated: when the strip of a TIFF drops the EXIF-IFD (34665) or the
\* GPS-IFD (34853) pointer entry from IFD0, every byte of the sub-IFD it
\* pointed to, entry table and out-of-line values, is zero in the output.
C12_SubIfdZeroed ==
    \A tag \in {34665, 34853} :
        pointerDropped(tag) =>
            \A i \in subIfdExtent(lastInput, tag) : At(lastResult.data, i) = 0

\* --- C11 ---

\* the caller is inside a call whose loop makes no progress
insideCall == pc \in {"stripping", "restripping", "inspecting", "verifying"}

\* C11 as stated: whatever the bytes of the file, the call that strips it
\* and the call that inspects it come back, with a result or with an error;
\* no caller is left inside a call whose parser loop makes no progress.
C11_CallsReturn == ~insideCall

\* --- C14 ---

RECURSIVE atomsOf(_, _, _, _)
\* the atoms mp4.walkAtoms visits in a file, those inside containers included
atomsOf(data, from, to, depth) ==
    LET under(atom) ==
            IF atom.type \in CONTAINER_ATOM_TYPES
            THEN atomsOf(data, childStart(atom), atom.dataOffset + atom.dataSize,
                         depth + 1)
            ELSE {}
        all(atoms) == UNION {{atoms[i]} \cup under(atoms[i]) : i \in 1..Len(atoms)}
    IN  IF depth > 10 THEN {} ELSE all(parseAtoms(data, from, to))

inputAtoms == atomsOf(lastInput, 0, Len(lastInput), 0)

\* the offsets of the contents of the listed metadata atoms
listedContents ==
    UNION {a.dataOffset..(a.dataOffset + a.dataSize - 1) :
              a \in {b \in inputAtoms : b.type \in ZERO_ATOM_TYPES}}

\* the offsets of the creation and modification time of the movie headers
mvhdTimeFields ==
    UNION {(a.dataOffset + 4)..(a.dataOffset + (IF At(lastInput, a.dataOffset) = 0
                                                 THEN 11 ELSE 19)) :
              a \in {b \in inputAtoms : b.type = ATOM_MVHD}}

mp4Stripped == stripDone /\ lastResult.format \in {"mp4", "mov"}

\* C14 as stated: the strip of an MP4 or MOV file removes no atom: every
\* atom of the input has its size and type header unchanged at its offset in
\* the output, and the only bytes that differ are contents of the listed
\* metadata atoms and the time fields of mvhd.
C14_AtomsKept ==
    mp4Stripped =>
        /\ Len(lastResult.data) = Len(lastInput)
        /\ \A a \in inputAtoms :
              slice(lastResult.data, a.offset, a.offset + a.headerSize)
                = slice(lastInput, a.offset, a.offset + a.headerSize)
        /\ changedOffsets \subseteq listedContents \cup mvhdTimeFields

\* --- C15 ---

\* C15 as stated: the strip of a PDF that holds an /Encrypt N G R
\* reference, wherever in the file the reference lies, returns the input
\* byte for byte.
C15_EncryptedUntouched ==
    (stripDone /\ lastResult.format = "pdf" /\ isEncrypted(lastInput))
        => lastResult.data = lastInput

\* --- C16 ---

\* the application extensions of a file whose first block is not 11 bytes
oddExtensions(data) ==
    LET blocks == gifParseBlocks(data).blocks
    IN  {blocks[i].data : i \in {j \in 1..Len(blocks) :
                                   /\ blocks[j].type = "extension"
                                   /\ blocks[j].extensionType = 255
                                   /\ At(blocks[j].data, 2) # 11}}

\* C16 as stated: an application extension of a GIF whose identifier block
\* has a non-standard size is kept by strip: it is a block of the output,
\* byte for byte.
C16_OddExtensionKept ==
    (stripDone /\ lastResult.format = "gif")
        => oddExtensions(lastInput) \subseteq oddExtensions(lastResult.data)

\* --- C17 ---

\* the output of a strip under the default policy has been inspected
verifiedDefault == pc = "verified" /\ options = DefaultOptions

\* C17 as stated: whatever the format, the inspection of the output of a
\* strip under the default policy finds nothing: verifyClean reports clean
\* with an empty list of remaining metadata.
C17_NothingLeft ==
    verifiedDefault => (report.ok /\ report.clean /\ report.remainingMetadata = {})

\* --- C18 ---

\* the eXIf chunks of a PNG that hold a position
gpsChunks(data) ==
    LET chunks == pngParseChunks(data).chunks
    IN  {i \in 1..Len(chunks) :
            chunks[i].type = T_eXIf /\ readExifBlock(chunks[i].data).present}

\* a strip of a PNG that carries a position, with a precision to keep
pngRedacted ==
    /\ stripDone /\ lastResult.format = "png"
    /\ options.gpsRedact \in {"city", "region", "country"}
    /\ gpsChunks(lastInput) # {}

\* C18 as stated: when a PNG that carries a position is stripped with
\* gpsRedact set to city, region or country, the output has an eXIf chunk
\* that holds a position.
C18_PngGpsReinjected == pngRedacted => gpsChunks(lastResult.data) # {}

\* --- C19 ---

RECURSIVE boxOverruns(_, _)
\* a top-level box of the file, from `offset` on, declares in its 32-bit
\* size field more bytes than the file has left
boxOverruns(data, offset) ==
    LET judged(size) ==
            size >= 8 /\ (offset + size > Len(data) \/ boxOverruns(data, offset + size))
    IN  offset + 8 <= Len(data) /\ judged(readUint32BE(data, offset))

\* the strip of an ISO base media file with such a box has come back
cutBoxStripped ==
    /\ pc = "stripped"
    /\ detectFormat(input) \in {"heic", "avif", "mp4", "mov"}
    /\ boxOverruns(input, 0)

\* C19 as stated: the strip of a file whose container is corrupt, here a
\* box whose length exceeds the rest of the buffer, raises an error and
\* returns no output buffer.
C19_CorruptionRaises == cutBoxStripped => ~result.ok

\* --- C20 ---

\* getMetadataTypes has come back on a file of a recognised format
inspectedKnown == pc = "inspected" /\ report.format # "unknown"

\* C20 as stated: on a file of a recognised format, whatever is malformed
\* inside it, getMetadataTypes returns a list, partial or empty, and raises
\* nothing.
C20_InspectionReturnsList == inspectedKnown => report.ok

\* --- C21 ---

\* the fields the policy names to be preserved: those whose preserve flag
\* is set, as given or as merged from the field lists, and the keep list
policyPreserved ==
    {f \in DOMAIN FIELD_TO_PRESERVE : mergedFlag(options, FIELD_TO_PRESERVE[f])}
        \cup options.keep

\* the preserved fields the output of the last strip still carries
stillCarried ==
    policyPreserved \cap metadataTypes(lastResult.format, lastResult.data)

RECURSIVE valueBytes(_, _, _, _)
\* The bytes of the values between offsets i and end, read as PDF syntax:
\* `mode` is 0 outside a value, -1 inside a hex string, and the depth of
\* parentheses inside a string literal.  A literal's content runs from
\* behind its opening parenthesis to before the matching one, a backslash
\* and the character it escapes included; a hex string's content is the
\* hex digits between `<` and `>`; `<<` and `>>` delimit dictionaries.
valueBytes(data, i, end, mode) ==
    LET c == At(data, i)
        twin == i + 1 < end /\ At(data, i + 1) = c
    IN  IF i >= end THEN [literal |-> {}, hex |-> {}]
        ELSE IF mode = 0 THEN
            IF c = 40 THEN valueBytes(data, i + 1, end, 1)
            ELSE IF c \in {60, 62} /\ twin THEN valueBytes(data, i + 2, end, 0)
            ELSE IF c = 60 THEN valueBytes(data, i + 1, end, -1)
            ELSE valueBytes(data, i + 1, end, 0)
        ELSE IF mode = -1 THEN
            IF c = 62 THEN valueBytes(data, i + 1, end, 0)
            ELSE LET rest == valueBytes(data, i + 1, end, -1)
                 IN  IF c \in HexDigit THEN [rest EXCEPT !.hex = @ \cup {i}] ELSE rest
        ELSE IF c = 92 THEN
            LET rest == valueBytes(data, i + 2, end, mode)
            IN  [rest EXCEPT !.literal = @ \cup ({i, i + 1} \cap (0..(end - 1)))]
        ELSE IF c = 41 /\ mode = 1 THEN valueBytes(data, i + 1, end, 0)
        ELSE LET rest == valueBytes(data, i + 1, end,
                                    IF c = 40 THEN mode + 1
                                    ELSE IF c = 41 THEN mode - 1 ELSE mode)
             IN  [rest EXCEPT !.literal = @ \cup {i}]

\* the byte range of the object the trailer of a file names as /Info
infoRange(data) ==
    LET ranged(infoRef) ==
            IF infoRef.ok
            THEN findObjectRange(data, infoRef.objectNum, infoRef.generation)
            ELSE NoRange
    IN  ranged(findInfoRef(data))

\* the values of the /Info object of the file last stripped
infoValues ==
    LET within(range) ==
            IF range.ok THEN valueBytes(lastInput, range.start, range.end, 0)
            ELSE [literal |-> {}, hex |-> {}]
    IN  within(infoRange(lastInput))

\* an unencrypted PDF has been stripped
pdfStripped ==
    stripDone /\ lastResult.format = "pdf" /\ ~isEncrypted(lastInput)

\* C22 as stated: after the strip of a PDF every byte of every string
\* literal of the /Info object, escapes and nested parentheses included,
\* is a space, and every digit of every hex string of it is '0'.
C22_InfoValuesBlanked ==
    pdfStripped =>
        /\ \A i \in infoValues.literal : At(lastResult.data, i) = 32
        /\ \A i \in infoValues.hex : At(lastResult.data, i) = 48

\* --- C28 ---

\* the offsets of the payloads of the XMP metadata streams of the file last
\* stripped
xmpPayloads ==
    UNION {r.start..(r.end - 1) : r \in findXmpStreamRanges(lastInput)}

\* C28 as stated: the bytes that the strip of an unencrypted PDF changes
\* lie inside string literals or hex strings of the /Info object or
\* inside the payload of an XMP metadata stream; keys, delimiters and
\* everything else are unchanged.
C28_OnlyValuesChanged ==
    pdfStripped =>
        /\ Len(lastResult.data) = Len(lastInput)
        /\ changedOffsets \subseteq
              infoValues.literal \cup infoValues.hex \cup xmpPayloads

\* --- C23 ---

\* C23 as stated: the bytes processFile writes to its output path are
\* those of removeMetadataSync(fileBytes, options).data for the options it
\* was given.
C23_OptionsPassedThrough ==
    pc = "processed" =>
        disk[fileOutputPath(InputPath, nodeOptions)]
            = processRemoval(input, options).data

\* --- C24 ---

\* the workers that hold a file
inFlight == {w \in DOMAIN workers : workers[w].step \notin {"idle", "exited"}}

\* C24: at no point of a batch are more files being processed than
\* options.concurrency, 4 when it is not given.
C24_ConcurrencyBound == Cardinality(inFlight) <= nodeOptions.concurrency

\* The limit is reached while files are still waiting in the queue.
C24_Witness ==
    /\ pc = "batch"
    /\ Cardinality(inFlight) = nodeOptions.concurrency
    /\ queue # <<>>

\* --- C25 ---

\* C25 as stated: with skipExisting set, no step of the batch writes to a
\* file that is on disk: every file that exists keeps its bytes.
C25_ExistingNeverWritten ==
    [][nodeOptions.skipExisting =>
          \A path \in DOMAIN disk : exists(disk', path) /\ disk'[path] = disk[path]]_vars

\* C26: the scrub stream pushes nothing while its input is open; once the
\* input has ended it has either pushed exactly one buffer, the stripped
\* bytes of the chunks joined in the order they arrived, or signalled an
\* error without pushing anything
C26_BufferedThenOne ==
    /\ scrub.state \in {"open", "ended", "errored"}
    /\ scrub.state = "open" => scrub.pushed = <<>>
    /\ scrub.state = "ended" =>
          /\ processRemoval(input, options).ok
          /\ scrub.pushed = <<processRemoval(input, options).data>>
    /\ scrub.state = "errored" =>
          /\ ~processRemoval(input, options).ok
          /\ scrub.pushed = <<>>

\* a file that came in pieces went out as one buffer, without its metadata
C26_Witness ==
    /\ scrub.state = "ended" /\ scrub.arriving = <<>> /\ scrub.chunks = <<>>
    /\ Len(scrub.pushed) = 1 /\ scrub.pushed[1] # input
    /\ processRemoval(input, options).removedMetadata # {}

RECURSIVE firstChunk(_, _, _)
\* the first chunk of one of the given kinds from index i on, or 0
firstChunk(chunks, kinds, i) ==
    IF i > Len(chunks) THEN 0
    ELSE IF chunks[i].fourcc \in kinds THEN i
    ELSE firstChunk(chunks, kinds, i + 1)

\* the canvas of a WebP file: that of its VP8X chunk, or without one that of
\* its picture's bitstream header
canvas(data) ==
    LET chunks == webpParseChunks(data).chunks
        sizeAt(x, p) ==
            IF x # 0 THEN getSizeFromVp8x(chunks[x])
            ELSE IF p = 0 THEN NoSize
            ELSE IF chunks[p].fourcc = CHUNKS.VP8 THEN getSizeFromVp8(chunks[p])
            ELSE getSizeFromVp8L(chunks[p])
    IN  sizeAt(firstChunk(chunks, {CHUNKS.VP8X}, 1),
               firstChunk(chunks, {CHUNKS.VP8, CHUNKS.VP8L}, 1))

webpStripped == stripDone /\ lastResult.format = "webp"

\* C27: the canvas width and height of a stripped WebP, read from its VP8X
\* chunk or without one from its bitstream header, are those of the input
C27_CanvasKept ==
    webpStripped => canvas(lastResult.data) = canvas(lastInput)

\* strip rebuilt a PNG under a policy that injects fields
pngInjected ==
    /\ stripDone /\ lastResult.format = "png"
    /\ merged.inject.present /\ Len(buildRawExifBlock(merged.inject)) > 0

\* the chunks of the file are complete, fill it to its end and end in IEND
wholeChunks(data) ==
    LET parsed == pngParseChunks(data)
        written == [i \in 1..Len(parsed.chunks) |->
                       writeUint32BE(Len(parsed.chunks[i].data)) \o parsed.chunks[i].type
                           \o parsed.chunks[i].data \o parsed.chunks[i].crc]
    IN  /\ parsed.ok /\ parsed.chunks # <<>>
        /\ parsed.chunks[Len(parsed.chunks)].type = T_IEND
        /\ SIG_PNG \o concat(written) = data

\* the chunks before IEND that hold the given block as an eXIf chunk
exifChunks(data, rawTiff) ==
    LET chunks == pngParseChunks(data).chunks
    IN  {i \in 1..(Len(chunks) - 1) : chunks[i].type = T_eXIf /\ chunks[i].data = rawTiff}

\* the added chunk is found on a chunk boundary before IEND
C29_ChunkPlaced ==
    pngInjected =>
        /\ wholeChunks(lastResult.data)
        /\ exifChunks(lastResult.data, buildRawExifBlock(merged.inject)) # {}

\* C29: a PNG that strip added an eXIf chunk to is a sequence of complete
\* chunks ending in IEND, with the added chunk on a chunk boundary before
\* IEND and carrying the CRC-32 of its type and data
C29_InjectedPngWellFormed ==
    pngInjected =>
        /\ wholeChunks(lastResult.data)
        /\ \E i \in exifChunks(lastResult.data, buildRawExifBlock(merged.inject)) :
              pngParseChunks(lastResult.data).chunks[i].crc
                  = crc32Png(T_eXIf, buildRawExifBlock(merged.inject))

\* the file that arrived has been processed: its output is on disk
watchProcessed == exists(disk, fileOutputPath(InputPath, nodeOptions))

\* the arrived file is one strip accepts
watchSupported == strippedByProcessFile(input, options).ok

\* C30: after a supported file has arrived in the watched directory, the
\* watcher processes it, and from some point on no callback is pending or
\* running, so that no file is written any more
C30_WatchQuiesces ==
    watchSupported => (<>watchProcessed /\ <>[](timers = {} /\ workers = <<>>))

====
